---- MODULE Spec2Model ----
(***************************************************************************)
(* A model of the errorx library: the Error Value (errorData), its         *)
(* construction and wrapping API, cause-chain equality (Is) and the panic  *)
(* text parser (ParsePanic).                                               *)
(*                                                                         *)
(* Strings are sequences of one-character strings, so that prefixes,       *)
(* separators, format verbs and line syntax are computed, not assumed.     *)
(* Go interface values are records [kind, id, msg]: Go's == on two         *)
(* interface values is equality of these records (pointer identity for     *)
(* *errorString and *errorData, value equality for uncaughtPanic).         *)
(***************************************************************************)
EXTENDS Integers, Sequences, FiniteSets, TLC

VARIABLES
    plain,      \* heap of plain errors (*errors.errorString): index -> message
    errs,       \* heap of Error Values (*errorData): index -> errorData record
    applied,    \* history: index -> the prefixes WrapPrefix was given for that Error Value, in call order
    last,       \* the last API call: its name, arguments and return value (SpecRace: the calls in flight)
    lines,      \* ParsePanic: strings.Split(panicToParse, "\n")
    ps          \* ParsePanic: the locals of the running parse (state, i, message, stack) and its return values

vars == <<plain, errs, applied, last, lines, ps>>

-----------------------------------------------------------------------------
(* Bounds of the model *)

MaxErrs == 2
MaxSkip == 1
MaxWraps == 2
MaxFrames == 2
MaxFileLen == 4

-----------------------------------------------------------------------------
(* Strings *)

Sep == <<":", " ">>

Min(a, b) == IF a < b THEN a ELSE b

\* strings.HasPrefix(s, prefix)
HasPrefix(s, prefix) ==
    /\ Len(s) >= Len(prefix)
    /\ SubSeq(s, 1, Len(prefix)) = prefix

\* strings.HasSuffix(s, suffix)
HasSuffix(s, suffix) ==
    /\ Len(s) >= Len(suffix)
    /\ SubSeq(s, Len(s) - Len(suffix) + 1, Len(s)) = suffix

\* strings.TrimPrefix(s, prefix)
TrimPrefix(s, prefix) ==
    IF HasPrefix(s, prefix) THEN SubSeq(s, Len(prefix) + 1, Len(s)) ELSE s

\* strings.Index(s, sub): 0-based index of the first occurrence, -1 if none
Index(s, sub) ==
    LET hits == {k \in 0..(Len(s) - Len(sub)) : SubSeq(s, k + 1, k + Len(sub)) = sub}
    IN  IF hits = {} THEN -1 ELSE CHOOSE k \in hits : \A j \in hits : k <= j

\* strings.LastIndex(s, sub): 0-based index of the last occurrence, -1 if none
LastIndex(s, sub) ==
    LET hits == {k \in 0..(Len(s) - Len(sub)) : SubSeq(s, k + 1, k + Len(sub)) = sub}
    IN  IF hits = {} THEN -1 ELSE CHOOSE k \in hits : \A j \in hits : k >= j

\* a Sprintf that prints its first operand only
SprintfOuterOnly(a, b) == a

\* fmt.Sprintf("%s: %s", a, b)
SprintfPrefix(a, b) == a \o Sep \o b

\* fmt.Errorf(format) with no operands, as New calls it: the message is the
\* format string run through fmt's verb processing. "%%" prints "%", a "%" that
\* ends the string prints "%!(NOVERB)", "%" followed by a verb letter c prints
\* "%!c(MISSING)". (The message alphabet holds no flag, width or index character.)
RECURSIVE SprintfNoArgs(_)
SprintfNoArgs(format) ==
    IF format = <<>> THEN <<>>
    ELSE IF Head(format) # "%" THEN <<Head(format)>> \o SprintfNoArgs(Tail(format))
    ELSE IF Len(format) = 1 THEN <<"%", "!", "(", "N", "O", "V", "E", "R", "B", ")">>
    ELSE IF format[2] = "%" THEN <<"%">> \o SprintfNoArgs(SubSeq(format, 3, Len(format)))
    ELSE <<"%", "!", format[2], "(", "M", "I", "S", "S", "I", "N", "G", ")">>
             \o SprintfNoArgs(SubSeq(format, 3, Len(format)))

-----------------------------------------------------------------------------
(* Values *)

Nil == [kind |-> "nil", id |-> 0, msg |-> <<>>]

\* a value that is not an error (a string handed to NewError or Wrap)
StrVal(s) == [kind |-> "str", id |-> 0, msg |-> s]

\* a pointer to a plain error (errors.New, fmt.Errorf)
PlainRef(n) == [kind |-> "plain", id |-> n, msg |-> <<>>]

\* a pointer to an errorData
ErrxRef(n) == [kind |-> "errx", id |-> n, msg |-> <<>>]

\* uncaughtPanic{message}: a struct value, compared by its content
uncaughtPanic(message) == [kind |-> "panic", id |-> 0, msg |-> message]

\* the value satisfies Go's error interface
IsError(v) == v.kind \in {"plain", "errx", "panic"}

\* a nil slice, and a slice holding elems
NilSlice == [isNil |-> TRUE, elems |-> <<>>]

Slice(elems) == [isNil |-> FALSE, elems |-> elems]

NoMetadata == 0

\* the errorData struct literal of NewError and Wrap: the fields not named are zero
errorData(cause, stack) ==
    [cause |-> cause, stackFrames |-> NilSlice, prefix |-> <<>>, stack |-> stack,
     metadata |-> NoMetadata]

\* fmt.Sprintf("%v", e) for a value that is not an error
SprintV(v) ==
    IF v.kind = "nil" THEN <<"<", "n", "i", "l", ">">> ELSE v.msg

-----------------------------------------------------------------------------
(* Call stacks *)

\* The program counters of the library's own frames; user frames are 1..depth,
\* frame 1 being the function that calls the library.
MaxStackDepth == 50

FrameCallers == 100

FrameNewError == 101

FrameNew == 102

FrameWrap == 103

FrameWrapPrefix == 104

FrameErrorf == 105

\* how deep the code that calls the library is
CallDepths == {1, 2}

\* the frames of the code that calls the library, innermost first
UserStack(depth) == [k \in 1..depth |-> k]

\* a runtime.Callers given a buffer as long as the call stack
CallersUncapped(skip, callStack) ==
    LET full == <<FrameCallers>> \o callStack
    IN  SubSeq(full, skip + 1, Len(full))

\* stack := make([]uintptr, MaxStackDepth); length := runtime.Callers(skip, stack[:]);
\* stack[:length]. callStack is the goroutine's stack inside the function that
\* calls runtime.Callers, innermost first; entry 0 for runtime.Callers is its own frame.
Callers(skip, callStack) ==
    LET full == <<FrameCallers>> \o callStack
    IN  SubSeq(full, skip + 1, Min(Len(full), skip + MaxStackDepth))

-----------------------------------------------------------------------------
(* errorData methods *)

RECURSIVE ErrMessage(_)

\* an Error() that leaves the prefix out of the message
ErrorNoPrefix(e) ==
    IF e.cause = Nil THEN <<>> ELSE ErrMessage(e.cause)

\* func (e errorData) Error() string
Error(e) ==
    IF e.cause = Nil THEN <<>>
    ELSE LET msg == ErrMessage(e.cause)
         IN  IF e.prefix # <<>> THEN SprintfPrefix(e.prefix, msg) ELSE msg

\* v.Error() for a value of interface type error: dispatch on the dynamic type
ErrMessage(v) ==
    CASE v.kind = "plain" -> plain[v.id]
      [] v.kind = "panic" -> v.msg
      [] v.kind = "errx"  -> Error(errs[v.id])

\* func (e *errorData) Cause() error
Cause(e) == e.cause

\* func (e errorData) Prefix() string
Prefix(e) == e.prefix

\* func (e errorData) Stack() []uintptr
Stack(e) == e.stack

\* func (e errorData) Metadata() *json.RawMessage
Metadata(e) == e.metadata

\* a setPrefix that also drops the raw stack
setPrefixDropsStack(heap, id, prefix) ==
    [heap EXCEPT ![id].prefix = prefix, ![id].stack = <<>>]

\* func (e *errorData) setPrefix(prefix string): the heap after the call
setPrefix(heap, id, prefix) == [heap EXCEPT ![id].prefix = prefix]

\* func (e *errorData) SetMetadata(metadata *json.RawMessage) error: the heap after the call
SetMetadata(heap, id, metadata) == [heap EXCEPT ![id].metadata = metadata]

-----------------------------------------------------------------------------------------------------------------------------------------------------
(* Construction and wrapping. h is the heap before the call, [plain, errs];  *)
(* each operator returns the heap after the call and the returned reference. *)
(* callers is the stack of the code that calls the function, innermost first.*)

\* fmt.Errorf(...) with the message it formats to: a new plain error
NewPlain(h, message) ==
    [plain |-> Append(h.plain, message), errs |-> h.errs,
     ret |-> PlainRef(Len(h.plain) + 1)]

\* &errorData{cause: cause, stack: stack}
NewErrorData(h, cause, stack) ==
    [plain |-> h.plain, errs |-> Append(h.errs, errorData(cause, stack)),
     ret |-> ErrxRef(Len(h.errs) + 1)]

\* func NewError(newError any) Error
NewError(h, newError, callers) ==
    LET c == IF IsError(newError)
             THEN [plain |-> h.plain, errs |-> h.errs, ret |-> newError]
             ELSE NewPlain(h, SprintV(newError))
    IN  NewErrorData(c, c.ret, Callers(2, <<FrameNewError>> \o callers))

\* a New that takes its argument as the message, not as a format string:
\* NewError(errors.New(newErrorStr))
NewVerbatim(h, newErrorStr, callers) ==
    LET c == NewPlain(h, newErrorStr)
    IN  NewError(c, c.ret, <<FrameNew>> \o callers)

\* func New(newErrorStr string) Error
New(h, newErrorStr, callers) ==
    LET c == NewPlain(h, SprintfNoArgs(newErrorStr))
    IN  NewError(c, c.ret, <<FrameNew>> \o callers)

\* a Wrap without the *errorData case: an Error Value is wrapped again like any error
WrapAgain(h, errToWrap, stackToSkip, callers) ==
    LET c == IF IsError(errToWrap)
             THEN [plain |-> h.plain, errs |-> h.errs, ret |-> errToWrap]
             ELSE NewPlain(h, SprintV(errToWrap))
    IN  NewErrorData(c, c.ret, Callers(2 + stackToSkip, <<FrameWrap>> \o callers))

\* func Wrap(errToWrap any, stackToSkip int) Error
Wrap(h, errToWrap, stackToSkip, callers) ==
    IF errToWrap.kind = "errx"
    THEN [plain |-> h.plain, errs |-> h.errs, ret |-> errToWrap]
    ELSE LET c == IF IsError(errToWrap)
                  THEN [plain |-> h.plain, errs |-> h.errs, ret |-> errToWrap]
                  ELSE NewPlain(h, SprintV(errToWrap))
         IN  NewErrorData(c, c.ret, Callers(2 + stackToSkip, <<FrameWrap>> \o callers))

\* a WrapPrefix that leaves an Error Value it is given alone and returns a
\* prefixed copy
WrapPrefixCopy(h, e, prefix, skip, callers) ==
    LET w == Wrap(h, e, skip, <<FrameWrapPrefix>> \o callers)
        err == w.errs[w.ret.id]
        new == IF Prefix(err) # <<>> THEN SprintfPrefix(prefix, Prefix(err)) ELSE prefix
    IN  IF e.kind = "errx"
        THEN [plain |-> w.plain, errs |-> Append(w.errs, [err EXCEPT !.prefix = new]),
              ret |-> ErrxRef(Len(w.errs) + 1)]
        ELSE [plain |-> w.plain, errs |-> setPrefix(w.errs, w.ret.id, new), ret |-> w.ret]

\* a WrapPrefix that overwrites the prefix whatever the existing one
WrapPrefixOverwrite(h, e, prefix, skip, callers) ==
    LET w == Wrap(h, e, skip, <<FrameWrapPrefix>> \o callers)
    IN  [plain |-> w.plain, errs |-> setPrefix(w.errs, w.ret.id, prefix), ret |-> w.ret]

\* func WrapPrefix(e any, prefix string, skip int) Error
WrapPrefix(h, e, prefix, skip, callers) ==
    LET w == Wrap(h, e, skip, <<FrameWrapPrefix>> \o callers)
        err == w.errs[w.ret.id]
        errs1 == IF Prefix(err) # <<>>
                 THEN setPrefix(w.errs, w.ret.id, SprintfPrefix(prefix, Prefix(err)))
                 ELSE setPrefix(w.errs, w.ret.id, prefix)
    IN  [plain |-> w.plain, errs |-> errs1, ret |-> w.ret]

\* func Errorf(format string, a ...any) Error: Wrap(fmt.Errorf(format, a...), 2);
\* message is what fmt.Errorf formats
Errorf(h, message, callers) ==
    LET c == NewPlain(h, message)
    IN  Wrap(c, c.ret, 2, <<FrameErrorf>> \o callers)

-----
(* Cause-chain equality *)

RECURSIVE IsByMessage(_, _)
\* an Is that compares messages where the code compares identities
IsByMessage(comparedTo, target) ==
    IF comparedTo = target THEN TRUE
    ELSE IF IsError(comparedTo) /\ IsError(target)
            /\ comparedTo.kind # "errx" /\ target.kind # "errx"
            /\ ErrMessage(comparedTo) = ErrMessage(target) THEN TRUE
    ELSE IF comparedTo.kind = "errx" THEN IsByMessage(Cause(errs[comparedTo.id]), target)
    ELSE IF target.kind = "errx" THEN IsByMessage(comparedTo, errs[target.id].cause)
    ELSE FALSE

RECURSIVE IsCandidateOnly(_, _)
\* an Is that walks only the candidate's chain
IsCandidateOnly(comparedTo, target) ==
    IF comparedTo = target THEN TRUE
    ELSE IF comparedTo.kind = "errx" THEN IsCandidateOnly(Cause(errs[comparedTo.id]), target)
    ELSE FALSE

\* an Is that follows the causes of target only
RECURSIVE IsTargetOnly(_, _)
IsTargetOnly(comparedTo, target) ==
    IF comparedTo = target THEN TRUE
    ELSE IF target.kind = "errx" THEN IsTargetOnly(comparedTo, errs[target.id].cause)
    ELSE FALSE

RECURSIVE Is(_, _)
\* func Is(comparedTo error, target error) bool
Is(comparedTo, target) ==
    IF comparedTo = target THEN TRUE
    ELSE IF comparedTo.kind = "errx" THEN Is(Cause(errs[comparedTo.id]), target)
    ELSE IF target.kind = "errx" THEN Is(comparedTo, errs[target.id].cause)
    ELSE FALSE

-----------------------------------------------------------------------------
(* The inputs the API is called with *)

\* messages handed to New
Msgs == {<<"a">>, <<"a", "%">>, <<"%", "d">>, <<"%", "%">>}

\* values that are not errors, handed to NewError, Wrap and WrapPrefix
StrVals == {StrVal(<<"a", "%">>)}

\* prefixes handed to WrapPrefix
Prefixes == {<<>>, <<"p">>, <<"q">>}

\* metadata payloads handed to SetMetadata (NoMetadata is the nil pointer)
Metas == {NoMetadata, 1, 2}

\* every value the caller can hold in the current state
Values ==
    {Nil} \cup StrVals \cup {PlainRef(n) : n \in 1..Len(plain)}
          \cup {ErrxRef(n) : n \in 1..Len(errs)}

heap == [plain |-> plain, errs |-> errs]

Call(op, arg, text, skip, ret, out) ==
    [op |-> op, arg |-> arg, text |-> text, skip |-> skip, ret |-> ret, out |-> out]

NoCall == Call("none", Nil, <<>>, 0, Nil, <<>>)

\* the parser is idle in the specifications of the Error Value
ParserIdle ==
    [pc |-> "idle", state |-> "start", i |-> 0, message |-> <<>>, stack |-> <<>>,
     retError |-> Nil, retErr |-> Nil]

-----------------------------------------------------------------------------------------------------------------------------------------------------
(* The API calls. cap bounds the number of Error Values the heap may hold.   *)

Init ==
    /\ plain = << <<"a">>, <<"a">> >>    \* two errors.New("a") of the caller
    /\ errs = <<>>
    /\ applied = <<>>
    /\ last = NoCall
    /\ lines = <<>>
    /\ ps = ParserIdle

NewAct(cap) ==
    \E s \in Msgs, d \in CallDepths :
        /\ Len(errs) < cap
        /\ LET r == New(heap, s, UserStack(d))
           IN  /\ plain' = r.plain
               /\ errs' = r.errs
               /\ applied' = Append(applied, <<>>)
               /\ last' = Call("New", Nil, s, 0, r.ret, <<>>)
        /\ UNCHANGED <<lines, ps>>

NewErrorAct(cap) ==
    \E v \in Values, d \in CallDepths :
        /\ Len(errs) < cap
        /\ LET r == NewError(heap, v, UserStack(d))
           IN  /\ plain' = r.plain
               /\ errs' = r.errs
               /\ applied' = Append(applied, <<>>)
               /\ last' = Call("NewError", v, <<>>, 0, r.ret, <<>>)
        /\ UNCHANGED <<lines, ps>>

WrapAct(cap) ==
    \E v \in Values, s \in 0..MaxSkip, d \in CallDepths :
        /\ v.kind = "errx" \/ Len(errs) < cap
        /\ LET r == Wrap(heap, v, s, UserStack(d))
           IN  /\ plain' = r.plain
               /\ errs' = r.errs
               /\ applied' = IF Len(r.errs) > Len(errs) THEN Append(applied, <<>>) ELSE applied
               /\ last' = Call("Wrap", v, <<>>, s, r.ret, <<>>)
        /\ UNCHANGED <<lines, ps>>

WrapPrefixAct(cap) ==
    \E v \in Values, p \in Prefixes, s \in 0..MaxSkip, d \in CallDepths :
        /\ IF v.kind = "errx" THEN Len(applied[v.id]) < MaxWraps ELSE Len(errs) < cap
        /\ LET r == WrapPrefix(heap, v, p, s, UserStack(d))
               a == IF Len(r.errs) > Len(errs) THEN Append(applied, <<>>) ELSE applied
           IN  /\ plain' = r.plain
               /\ errs' = r.errs
               /\ applied' = [a EXCEPT ![r.ret.id] = Append(@, p)]
               /\ last' = Call("WrapPrefix", v, p, s, r.ret, <<>>)
        /\ UNCHANGED <<lines, ps>>

SetMetadataAct ==
    \E n \in 1..Len(errs), m \in Metas :
        /\ errs' = SetMetadata(errs, n, m)
        /\ last' = Call("SetMetadata", ErrxRef(n), <<Metadata(errs[n])>>, m, Nil, <<>>)
        /\ UNCHANGED <<plain, applied, lines, ps>>

-----------------------------------------------------------------------------
(* Specification Spec: Error Values built by New, NewError and Wrap, nested   *)
(* as causes of one another.                                                  *)

Next ==
    \/ NewAct(MaxErrs)
    \/ NewErrorAct(MaxErrs)
    \/ WrapAct(MaxErrs)

Spec == Init /\ [][Next]_vars

-----------------------------------------------------------------------------
(* Specification SpecWrap: one Error Value, wrapped, prefixed and given       *)
(* metadata any number of times.                                              *)

NextWrap ==
    \/ WrapAct(1)
    \/ WrapPrefixAct(1)
    \/ SetMetadataAct

SpecWrap == Init /\ [][NextWrap]_vars

-----------------------------------------------------------------------------------------------------------------------------------------------------------------------------------------------------------------------------
(* Specification SpecShared: two Error Values, the first the cause of the     *)
(* second, prefixed and given metadata through the references held to them.   *)

\* e1 := NewError(errors.New("a")); e2 := NewError(e1)
SharedHeap ==
    LET e1 == NewError([plain |-> << <<"a">> >>, errs |-> <<>>], PlainRef(1), UserStack(1))
    IN  NewError(e1, e1.ret, UserStack(1))

InitShared ==
    /\ plain = SharedHeap.plain
    /\ errs = SharedHeap.errs
    /\ applied = << <<>>, <<>> >>
    /\ last = NoCall
    /\ lines = <<>>
    /\ ps = ParserIdle

\* WrapPrefix on an Error Value the caller holds, MaxWraps times in all
WrapPrefixHeld ==
    \E n \in 1..Len(errs), p \in Prefixes, s \in 0..MaxSkip :
        /\ Len(applied[1]) + Len(applied[2]) < MaxWraps
        /\ LET r == WrapPrefix(heap, ErrxRef(n), p, s, UserStack(1))
           IN  /\ plain' = r.plain
               /\ errs' = r.errs
               /\ applied' = [k \in 1..Len(r.errs) |->
                                 IF k > Len(applied) THEN <<>>
                                 ELSE IF k = n THEN Append(applied[k], p) ELSE applied[k]]
               /\ last' = Call("WrapPrefix", ErrxRef(n), p, s, r.ret, <<>>)
        /\ UNCHANGED <<lines, ps>>

NextShared ==
    \/ WrapPrefixHeld
    \/ SetMetadataAct

SpecShared == InitShared /\ [][NextShared]_vars

-----------------------------------------------------------------------------
(* Specification SpecRace: two goroutines call WrapPrefix on one Error Value, *)
(* each call taken statement by statement: the test of the existing prefix,   *)
(* the read of it for the combined prefix, the write by setPrefix. The        *)
(* callers either hold a mutex of their own around the call or do not.        *)

Goroutines == {1, 2}

\* the prefixes the two goroutines hand to WrapPrefix
RacePrefixes == {<<"p">>, <<"q">>}

\* the prefix the Error Value has before the two calls
HeldPrefixes == {<<>>, <<"o">>}

\* e := NewError(errors.New("a")), given the prefix o
RaceHeap(o) ==
    LET e == NewError([plain |-> << <<"a">> >>, errs |-> <<>>], PlainRef(1), UserStack(1))
    IN  [plain |-> e.plain, errs |-> IF o = <<>> THEN e.errs ELSE setPrefix(e.errs, 1, o)]

\* a WrapPrefix(e, prefix, 0) call of one goroutine: where it stands and the
\* argument it has computed for setPrefix
InFlight(prefix, pc, out) ==
    [op |-> "WrapPrefix", arg |-> ErrxRef(1), text |-> prefix, skip |-> 0,
     ret |-> ErrxRef(1), out |-> out, pc |-> pc]

InitRace ==
    \E o \in HeldPrefixes, p1, p2 \in RacePrefixes, sync \in BOOLEAN :
        /\ plain = RaceHeap(o).plain
        /\ errs = RaceHeap(o).errs
        /\ applied = << <<>> >>
        /\ last = [sync |-> sync, mutex |-> 0, held |-> o,
                   calls |-> <<InFlight(p1, "start", <<>>), InFlight(p2, "start", <<>>)>>]
        /\ lines = <<>>
        /\ ps = ParserIdle

\* goroutine g moves to pc with out computed; the heap is as it was
Moved(g, pc, out) ==
    /\ last' = [last EXCEPT !.calls[g].pc = pc, !.calls[g].out = out]
    /\ UNCHANGED <<plain, errs, applied, lines, ps>>

\* the caller takes its mutex, if it uses one, and calls WrapPrefix:
\* err := Wrap(e, skip) returns e itself
EnterCall(g) ==
    /\ last.calls[g].pc = "start"
    /\ last.sync => last.mutex = 0
    /\ last' = [last EXCEPT !.calls[g].pc = "test", !.mutex = IF last.sync THEN g ELSE 0]
    /\ UNCHANGED <<plain, errs, applied, lines, ps>>

\* if err.Prefix() != ""
TestPrefix(g) ==
    /\ last.calls[g].pc = "test"
    /\ IF Prefix(errs[1]) # <<>>
       THEN Moved(g, "read", <<>>)
       ELSE Moved(g, "write", last.calls[g].text)

\* fmt.Sprintf("%s: %s", prefix, err.Prefix())
ReadPrefix(g) ==
    /\ last.calls[g].pc = "read"
    /\ Moved(g, "write", SprintfPrefix(last.calls[g].text, Prefix(errs[1])))

\* err.setPrefix(...)
WritePrefix(g) ==
    /\ last.calls[g].pc = "write"
    /\ errs' = setPrefix(errs, 1, last.calls[g].out)
    /\ applied' = [applied EXCEPT ![1] = Append(@, last.calls[g].text)]
    /\ last' = [last EXCEPT !.calls[g].pc = "written"]
    /\ UNCHANGED <<plain, lines, ps>>

\* return err; the caller releases its mutex, if it uses one
LeaveCall(g) ==
    /\ last.calls[g].pc = "written"
    /\ last' = [last EXCEPT !.calls[g].pc = "done", !.mutex = 0]
    /\ UNCHANGED <<plain, errs, applied, lines, ps>>

NextRace ==
    \E g \in Goroutines :
        \/ EnterCall(g)
        \/ TestPrefix(g)
        \/ ReadPrefix(g)
        \/ WritePrefix(g)
        \/ LeaveCall(g)

SpecRace == InitRace /\ [][NextRace]_vars

-----
(* Specification SpecError: Error() applied to errorData values of every      *)
(* shape, a cause-less one included (no exported constructor builds one, the  *)
(* method guards against it all the same).                                    *)

ErrorDataPool(causes) ==
    {[cause |-> c, stackFrames |-> NilSlice, prefix |-> p, stack |-> <<>>, metadata |-> NoMetadata] :
        c \in causes, p \in {<<>>, <<"p">>, <<"q", ":", " ", "p">>}}

InitError ==
    /\ plain = << <<"a">>, <<"b">> >>
    /\ \E e1 \in ErrorDataPool({Nil, PlainRef(1), PlainRef(2), uncaughtPanic(<<"b">>)}),
          e2 \in ErrorDataPool({Nil, PlainRef(1), uncaughtPanic(<<"b">>), ErrxRef(1)}) :
            errs = <<e1, e2>>
    /\ applied = << <<>>, <<>> >>
    /\ last = NoCall
    /\ lines = <<>>
    /\ ps = ParserIdle

ErrorCall ==
    \E n \in 1..Len(errs) :
        /\ last' = Call("Error", ErrxRef(n), <<>>, 0, Nil, Error(errs[n]))
        /\ UNCHANGED <<plain, errs, applied, lines, ps>>

NextError == ErrorCall

SpecError == InitError /\ [][NextError]_vars

-----------------------------------------------------------------------------------------------------------------------------------------------------------------------------------------------------------------------------
(* Specification SpecStack: the constructors called from shallow call stacks  *)
(* and from call stacks around MaxStackDepth deep. last.out holds the call    *)
(* stack of the code that called the constructor, innermost frame first.      *)

\* how deep the calling code is: shallow, and just under, at and over the cap
StackDepths == {1, 2, 3} \cup ((MaxStackDepth - 2)..(MaxStackDepth + 2))

\* the stack-building call r made with argument arg, text and skip from depth d
Built(op, arg, text, skip, d, r) ==
    /\ plain' = r.plain
    /\ errs' = r.errs
    /\ applied' = IF Len(r.errs) > Len(errs) THEN Append(applied, <<>>) ELSE applied
    /\ last' = Call(op, arg, text, skip, r.ret, UserStack(d))
    /\ UNCHANGED <<lines, ps>>

NewDeep ==
    \E s \in Msgs, d \in StackDepths :
        /\ Len(errs) < 1
        /\ Built("New", Nil, s, 0, d, New(heap, s, UserStack(d)))

NewErrorDeep ==
    \E v \in Values, d \in StackDepths :
        /\ Len(errs) < 1
        /\ Built("NewError", v, <<>>, 0, d, NewError(heap, v, UserStack(d)))

WrapDeep ==
    \E v \in Values, s \in 0..MaxSkip, d \in StackDepths :
        /\ v.kind = "errx" \/ Len(errs) < 1
        /\ Built("Wrap", v, <<>>, s, d, Wrap(heap, v, s, UserStack(d)))

WrapPrefixDeep ==
    \E v \in Values, p \in Prefixes, s \in 0..MaxSkip, d \in StackDepths :
        /\ IF v.kind = "errx" THEN Len(errs[v.id].prefix) < MaxWraps ELSE Len(errs) < 1
        /\ Built("WrapPrefix", v, p, s, d, WrapPrefix(heap, v, p, s, UserStack(d)))

ErrorfDeep ==
    \E s \in Msgs, d \in StackDepths :
        /\ Len(errs) < 1
        /\ Built("Errorf", Nil, s, 0, d, Errorf(heap, s, UserStack(d)))

NextStack ==
    \/ NewDeep
    \/ NewErrorDeep
    \/ WrapDeep
    \/ WrapPrefixDeep
    \/ ErrorfDeep

SpecStack == Init /\ [][NextStack]_vars

-----
(* The panic text parser (parse_panic.go) *)

FrameParsePanic == 106

FrameParsePanicFrame == 107

\* the stack of the code that calls ParsePanic
ParseCallers == UserStack(2)

\* the literal markers of the dump format
PanicPrefix == <<"p", "a", "n", "i", "c", ":", " ">>

GoroutinePrefix == <<"g", "o", "r", "o", "u", "t", "i", "n", "e", " ">>

RunningSuffix == <<"[", "r", "u", "n", "n", "i", "n", "g", "]", ":">>

CreatedByPrefix == <<"c", "r", "e", "a", "t", "e", "d", " ", "b", "y", " ">>

\* the element that stands for the centre dot of a mangled symbol
MidDot == "middot"

\* the format strings of the parse errors, up to their verb
TextNoPrefix ==
    <<"e", "r", "r", "o", "r", "x", ".", "P", "a", "n", "i", "c", "P", "a", "r", "s", "e", "r",
      ":", " ", "I", "n", "v", "a", "l", "i", "d", " ", "l", "i", "n", "e", " ", "(", "n", "o",
      " ", "p", "r", "e", "f", "i", "x", ")", ":", " ">>

TextUnpaired ==
    <<"e", "r", "r", "o", "r", "x", ".", "P", "a", "n", "i", "c", "P", "a", "r", "s", "e", "r",
      ":", " ", "I", "n", "v", "a", "l", "i", "d", " ", "l", "i", "n", "e", " ", "(", "u", "n",
      "p", "a", "i", "r", "e", "d", ")", ":", " ">>

TextNoCall ==
    <<"e", "r", "r", "o", "r", "x", ".", "P", "a", "n", "i", "c", "P", "a", "r", "s", "e", "r",
      ":", " ", "I", "n", "v", "a", "l", "i", "d", " ", "l", "i", "n", "e", " ", "(", "n", "o",
      " ", "c", "a", "l", "l", ")", ":", " ">>

TextNoTab ==
    <<"e", "r", "r", "o", "r", "x", ".", "P", "a", "n", "i", "c", "P", "a", "r", "s", "e", "r",
      ":", " ", "I", "n", "v", "a", "l", "i", "d", " ", "l", "i", "n", "e", " ", "(", "n", "o",
      " ", "t", "a", "b", ")", ":", " ">>

TextNoLineNumber ==
    <<"e", "r", "r", "o", "r", "x", ".", "P", "a", "n", "i", "c", "P", "a", "r", "s", "e", "r",
      ":", " ", "I", "n", "v", "a", "l", "i", "d", " ", "l", "i", "n", "e", " ", "(", "n", "o",
      " ", "l", "i", "n", "e", " ", "n", "u", "m", "b", "e", "r", ")", ":", " ">>

TextBadLineNumber ==
    <<"e", "r", "r", "o", "r", "x", ".", "P", "a", "n", "i", "c", "P", "a", "r", "s", "e", "r",
      ":", " ", "I", "n", "v", "a", "l", "i", "d", " ", "l", "i", "n", "e", " ", "(", "b", "a",
      "d", " ", "l", "i", "n", "e", " ", "n", "u", "m", "b", "e", "r", ")", ":", " ">>

TextCouldNotParse ==
    <<"c", "o", "u", "l", "d", " ", "n", "o", "t", " ", "p", "a", "r", "s", "e", " ", "p", "a",
      "n", "i", "c", ":", " ">>

\* the input text: the lines joined by "\n" (strings.Split undone)
RECURSIVE JoinLines(_)
JoinLines(ls) ==
    IF Len(ls) = 1 THEN ls[1] ELSE ls[1] \o <<"\n">> \o JoinLines(Tail(ls))

\* strings.Replace(s, old, new, -1) for a one-character old
RECURSIVE ReplaceAll(_, _, _)
ReplaceAll(s, old, new) ==
    IF s = <<>> THEN <<>>
    ELSE <<IF Head(s) = old THEN new ELSE Head(s)>> \o ReplaceAll(Tail(s), old, new)

DigitChars == <<"0", "1", "2", "3", "4", "5", "6", "7", "8", "9">>

DigitValue(c) == (CHOOSE k \in 1..10 : DigitChars[k] = c) - 1

RECURSIVE DecimalValue(_)
DecimalValue(digits) ==
    IF digits = <<>> THEN 0
    ELSE 10 * DecimalValue(SubSeq(digits, 1, Len(digits) - 1)) + DigitValue(digits[Len(digits)])

\* the width strconv.ParseInt is asked for
IntBits == 32

\* strconv.ParseInt(s, 10, 32): an optional sign, then decimal digits only, and
\* the value within 32 bits
ParseInt(s) ==
    LET signed == s # <<>> /\ Head(s) \in {"+", "-"}
        digits == IF signed THEN Tail(s) ELSE s
        wellFormed == digits # <<>> /\ \A k \in 1..Len(digits) : digits[k] \in {"0", "1", "2", "3", "4", "5", "6", "7", "8", "9"}
        magnitude == IF wellFormed THEN DecimalValue(digits) ELSE 0
        value == IF signed /\ Head(s) = "-" THEN 0 - magnitude ELSE magnitude
        half == 2 ^ (IntBits - 2)
        inRange == value >= (0 - half) - half /\ value <= (half - 1) + half
    IN  [ok |-> wellFormed /\ inRange, value |-> IF wellFormed /\ inRange THEN value ELSE 0]

StackFrame(file, lineNumber, package, name) ==
    [File |-> file, LineNumber |-> lineNumber, Name |-> name, Package |-> package,
     ProgramCounter |-> 0]

NoFrame == StackFrame(<<>>, 0, <<>>, <<>>)

\* the symbol of a call-site line split into package and name (as packageAndName does)
SplitSymbol(symbol) ==
    LET lastslash == LastIndex(symbol, <<"/">>)
        pkg1 == IF lastslash >= 0 THEN SubSeq(symbol, 1, lastslash) \o <<"/">> ELSE <<>>
        name1 == IF lastslash >= 0 THEN SubSeq(symbol, lastslash + 2, Len(symbol)) ELSE symbol
        period == Index(name1, <<".">>)
        pkg2 == IF period >= 0 THEN pkg1 \o SubSeq(name1, 1, period) ELSE pkg1
        name2 == IF period >= 0 THEN SubSeq(name1, period + 2, Len(name1)) ELSE name1
    IN  [pkg |-> pkg2, name |-> ReplaceAll(name2, MidDot, ".")]

\* func packageAndName(fn *runtime.Func) (string, string), on fn.Name()
packageAndName(name) ==
    LET lastslash == LastIndex(name, <<"/">>)
        pkg1 == IF lastslash >= 0 THEN SubSeq(name, 1, lastslash) \o <<"/">> ELSE <<>>
        name1 == IF lastslash >= 0 THEN SubSeq(name, lastslash + 2, Len(name)) ELSE name
        period == Index(name1, <<".">>)
        pkg2 == IF period >= 0 THEN pkg1 \o SubSeq(name1, 1, period) ELSE pkg1
        name2 == IF period >= 0 THEN SubSeq(name1, period + 2, Len(name1)) ELSE name1
    IN  [pkg |-> pkg2, name |-> ReplaceAll(name2, MidDot, ".")]

FrameResult(h, ok, frame, err) ==
    [ok |-> ok, frame |-> frame, plain |-> h.plain, errs |-> h.errs, err |-> err]

FrameError(h, text, callers) ==
    LET e == Errorf(h, text, <<FrameParsePanicFrame>> \o callers)
    IN  FrameResult(e, FALSE, NoFrame, e.ret)

\* a parsePanicFrame that does not look for the leading tab of the location line
parsePanicFrameNoTabCheck(h, name, line, createdBy, callers) ==
    LET idx == LastIndex(name, <<"(">>)
        symbol == IF idx # -1 THEN SubSeq(name, 1, idx) ELSE name
        split == SplitSymbol(symbol)
        colon == LastIndex(line, <<":">>)
        file == SubSeq(line, 2, colon)
        number1 == SubSeq(line, colon + 2, Len(line))
        plus == Index(number1, <<" ", "+">>)
        number == IF plus > -1 THEN SubSeq(number1, 1, plus) ELSE number1
        lno == ParseInt(number)
    IN  IF idx = -1 /\ ~createdBy THEN FrameError(h, TextNoCall \o name, callers)
        ELSE IF colon = -1 THEN FrameError(h, TextNoLineNumber \o line, callers)
        ELSE IF ~lno.ok THEN FrameError(h, TextBadLineNumber \o line, callers)
        ELSE FrameResult(h, TRUE, StackFrame(file, lno.value, split.pkg, split.name), Nil)

\* func parsePanicFrame(name string, line string, createdBy bool) (*StackFrame, error)
parsePanicFrame(h, name, line, createdBy, callers) ==
    LET idx == LastIndex(name, <<"(">>)
        symbol == IF idx # -1 THEN SubSeq(name, 1, idx) ELSE name
        split == SplitSymbol(symbol)
        colon == LastIndex(line, <<":">>)
        file == SubSeq(line, 2, colon)
        number1 == SubSeq(line, colon + 2, Len(line))
        plus == Index(number1, <<" ", "+">>)
        number == IF plus > -1 THEN SubSeq(number1, 1, plus) ELSE number1
        lno == ParseInt(number)
    IN  IF idx = -1 /\ ~createdBy THEN FrameError(h, TextNoCall \o name, callers)
        ELSE IF ~HasPrefix(line, <<"\t">>) THEN FrameError(h, TextNoTab \o line, callers)
        ELSE IF colon = -1 THEN FrameError(h, TextNoLineNumber \o line, callers)
        ELSE IF ~lno.ok THEN FrameError(h, TextBadLineNumber \o line, callers)
        ELSE FrameResult(h, TRUE, StackFrame(file, lno.value, split.pkg, split.name), Nil)


\* the locals of ParsePanic when it is entered: state := "start", i := 0
ParserStart ==
    [pc |-> "loop", state |-> "start", i |-> 0, message |-> <<>>, stack |-> <<>>,
     retError |-> Nil, retErr |-> Nil]

StepResult(h, p) == [ps |-> p, plain |-> h.plain, errs |-> h.errs]

\* return nil, Errorf(...)
ReturnFailure(p, e) ==
    StepResult(e, [p EXCEPT !.pc = "returned", !.retError = Nil, !.retErr = e.ret])

\* a start state that takes any first line as the panic line
StartStepAnyLine(h, p, ls, callers) ==
    LET line == ls[p.i + 1]
    IN  StepResult(h, [p EXCEPT !.message = TrimPrefix(line, PanicPrefix),
                                !.state = "seek", !.i = p.i + 1])

\* one iteration of the loop in state "start"
StartStep(h, p, ls, callers) ==
    LET line == ls[p.i + 1]
    IN  IF HasPrefix(line, PanicPrefix)
        THEN StepResult(h, [p EXCEPT !.message = TrimPrefix(line, PanicPrefix),
                                     !.state = "seek", !.i = p.i + 1])
        ELSE ReturnFailure(p, Errorf(h, TextNoPrefix \o line, <<FrameParsePanic>> \o callers))

\* a seek state that ends the parse at the goroutine line
SeekStepDone(h, p, ls, callers) ==
    LET line == ls[p.i + 1]
    IN  IF HasPrefix(line, GoroutinePrefix) /\ HasSuffix(line, RunningSuffix)
        THEN StepResult(h, [p EXCEPT !.state = "done", !.pc = "after"])
        ELSE StepResult(h, [p EXCEPT !.i = p.i + 1])

\* a seek state that stops at any goroutine line, running or not
SeekStepAnyGoroutine(h, p, ls, callers) ==
    LET line == ls[p.i + 1]
    IN  IF HasPrefix(line, GoroutinePrefix)
        THEN StepResult(h, [p EXCEPT !.state = "parsing", !.i = p.i + 1])
        ELSE StepResult(h, [p EXCEPT !.i = p.i + 1])

\* one iteration of the loop in state "seek"
SeekStep(h, p, ls, callers) ==
    LET line == ls[p.i + 1]
    IN  IF HasPrefix(line, GoroutinePrefix) /\ HasSuffix(line, RunningSuffix)
        THEN StepResult(h, [p EXCEPT !.state = "parsing", !.i = p.i + 1])
        ELSE StepResult(h, [p EXCEPT !.i = p.i + 1])

\* a parsing state that hands back the frames parsed so far along with the error
ParsingStepPartial(h, p, ls, callers) ==
    LET line0 == ls[p.i + 1]
        createdBy == HasPrefix(line0, CreatedByPrefix)
        line == IF createdBy THEN TrimPrefix(line0, CreatedByPrefix) ELSE line0
        i1 == p.i + 1
        f == parsePanicFrame(h, line, ls[i1 + 1], createdBy, <<FrameParsePanic>> \o callers)
        partial == [plain |-> f.plain,
                    errs |-> Append(f.errs, [cause |-> uncaughtPanic(p.message),
                                             stackFrames |-> Slice(p.stack), prefix |-> <<>>,
                                             stack |-> <<>>, metadata |-> NoMetadata])]
    IN  IF line0 = <<>> THEN StepResult(h, [p EXCEPT !.state = "done", !.pc = "after"])
        ELSE IF i1 >= Len(ls)
        THEN ReturnFailure([p EXCEPT !.i = i1],
                           Errorf(h, TextUnpaired \o line, <<FrameParsePanic>> \o callers))
        ELSE IF ~f.ok
        THEN StepResult(partial, [p EXCEPT !.i = i1, !.pc = "returned",
                                           !.retError = ErrxRef(Len(partial.errs)),
                                           !.retErr = f.err])
        ELSE IF createdBy
        THEN StepResult(f, [p EXCEPT !.i = i1, !.stack = Append(p.stack, f.frame),
                                     !.state = "done", !.pc = "after"])
        ELSE StepResult(f, [p EXCEPT !.i = i1 + 1, !.stack = Append(p.stack, f.frame)])

\* a parsing state that takes a call-site line at the end of the input as the
\* end of the frames
ParsingStepLenient(h, p, ls, callers) ==
    LET line0 == ls[p.i + 1]
        createdBy == HasPrefix(line0, CreatedByPrefix)
        line == IF createdBy THEN TrimPrefix(line0, CreatedByPrefix) ELSE line0
        i1 == p.i + 1
        f == parsePanicFrame(h, line, ls[i1 + 1], createdBy, <<FrameParsePanic>> \o callers)
    IN  IF line0 = <<>> \/ i1 >= Len(ls)
        THEN StepResult(h, [p EXCEPT !.state = "done", !.pc = "after"])
        ELSE IF ~f.ok
        THEN ReturnFailure([p EXCEPT !.i = i1], [plain |-> f.plain, errs |-> f.errs, ret |-> f.err])
        ELSE IF createdBy
        THEN StepResult(f, [p EXCEPT !.i = i1, !.stack = Append(p.stack, f.frame),
                                     !.state = "done", !.pc = "after"])
        ELSE StepResult(f, [p EXCEPT !.i = i1 + 1, !.stack = Append(p.stack, f.frame)])

\* a parsing state that goes on to the next entry after a created-by entry
ParsingStepPastCreatedBy(h, p, ls, callers) ==
    LET line0 == ls[p.i + 1]
        createdBy == HasPrefix(line0, CreatedByPrefix)
        line == IF createdBy THEN TrimPrefix(line0, CreatedByPrefix) ELSE line0
        i1 == p.i + 1
        f == parsePanicFrame(h, line, ls[i1 + 1], createdBy, <<FrameParsePanic>> \o callers)
    IN  IF line0 = <<>> THEN StepResult(h, [p EXCEPT !.state = "done", !.pc = "after"])
        ELSE IF i1 >= Len(ls)
        THEN ReturnFailure([p EXCEPT !.i = i1],
                           Errorf(h, TextUnpaired \o line, <<FrameParsePanic>> \o callers))
        ELSE IF ~f.ok
        THEN ReturnFailure([p EXCEPT !.i = i1], [plain |-> f.plain, errs |-> f.errs, ret |-> f.err])
        ELSE StepResult(f, [p EXCEPT !.i = i1 + 1, !.stack = Append(p.stack, f.frame)])

\* one iteration of the loop in state "parsing"
ParsingStep(h, p, ls, callers) ==
    LET line0 == ls[p.i + 1]
        createdBy == HasPrefix(line0, CreatedByPrefix)
        line == IF createdBy THEN TrimPrefix(line0, CreatedByPrefix) ELSE line0
        i1 == p.i + 1
        f == parsePanicFrame(h, line, ls[i1 + 1], createdBy, <<FrameParsePanic>> \o callers)
    IN  IF line0 = <<>> THEN StepResult(h, [p EXCEPT !.state = "done", !.pc = "after"])
        ELSE IF i1 >= Len(ls)
        THEN ReturnFailure([p EXCEPT !.i = i1],
                           Errorf(h, TextUnpaired \o line, <<FrameParsePanic>> \o callers))
        ELSE IF ~f.ok
        THEN ReturnFailure([p EXCEPT !.i = i1], [plain |-> f.plain, errs |-> f.errs, ret |-> f.err])
        ELSE IF createdBy
        THEN StepResult(f, [p EXCEPT !.i = i1, !.stack = Append(p.stack, f.frame),
                                     !.state = "done", !.pc = "after"])
        ELSE StepResult(f, [p EXCEPT !.i = i1 + 1, !.stack = Append(p.stack, f.frame)])

\* code after the loop that accepts only state "done"
ReturnStepDoneOnly(h, p, ls, callers) ==
    IF p.state = "done"
    THEN LET e == [cause |-> uncaughtPanic(p.message),
                   stackFrames |-> IF p.stack = <<>> THEN NilSlice ELSE Slice(p.stack),
                   prefix |-> <<>>, stack |-> <<>>, metadata |-> NoMetadata]
         IN  StepResult([plain |-> h.plain, errs |-> Append(h.errs, e)],
                        [p EXCEPT !.pc = "returned", !.retError = ErrxRef(Len(h.errs) + 1),
                                  !.retErr = Nil])
    ELSE ReturnFailure(p, Errorf(h, TextCouldNotParse \o JoinLines(ls),
                                 <<FrameParsePanic>> \o callers))

\* the code after the loop
ReturnStep(h, p, ls, callers) ==
    IF p.state = "done" \/ p.state = "parsing"
    THEN LET e == [cause |-> uncaughtPanic(p.message),
                   stackFrames |-> IF p.stack = <<>> THEN NilSlice ELSE Slice(p.stack),
                   prefix |-> <<>>, stack |-> <<>>, metadata |-> NoMetadata]
         IN  StepResult([plain |-> h.plain, errs |-> Append(h.errs, e)],
                        [p EXCEPT !.pc = "returned", !.retError = ErrxRef(Len(h.errs) + 1),
                                  !.retErr = Nil])
    ELSE ReturnFailure(p, Errorf(h, TextCouldNotParse \o JoinLines(ls),
                                 <<FrameParsePanic>> \o callers))

\* the loop of ParsePanic run from the locals p to the return
RECURSIVE RunParse(_, _, _, _)
RunParse(h, p, ls, callers) ==
    IF p.pc = "returned" THEN StepResult(h, p)
    ELSE CHOOSE out \in
            {RunParse([plain |-> r.plain, errs |-> r.errs], r.ps, ls, callers) :
                r \in {IF p.pc = "after" \/ p.i >= Len(ls) THEN ReturnStep(h, p, ls, callers)
                       ELSE IF p.state = "start" THEN StartStep(h, p, ls, callers)
                       ELSE IF p.state = "seek" THEN SeekStep(h, p, ls, callers)
                       ELSE ParsingStep(h, p, ls, callers)}} : TRUE

\* func ParsePanic(panicToParse string) (Error, error), on the lines of
\* panicToParse: the heaps after the call and the two results
ParsePanic(h, ls, callers) ==
    LET r == RunParse(h, ParserStart, ls, callers)
    IN  [plain |-> r.plain, errs |-> r.errs, retError |-> r.ps.retError, retErr |-> r.ps.retErr]

\* func (e errorData) Type() string
Type(e) ==
    IF e.cause = Nil THEN ""
    ELSE IF e.cause.kind = "panic" THEN "panic"
    ELSE IF e.cause.kind = "errx" THEN "*errorx.errorData"
    ELSE "*errors.errorString"

\* runtime.FuncForPC(pc).Name(): the symbol table of the running program, user
\* code in package main, the library in package errorx
FuncName(pc) ==
    IF pc >= FrameCallers THEN <<"g", "/", "e", ".", "w">> ELSE <<"m", ".", "f">>

\* runtime.FuncForPC(pc).FileLine(pc - 1)
FileLine(pc) ==
    IF pc >= FrameCallers THEN [file |-> <<"/", "e">>, line |-> pc - FrameCallers + 1]
    ELSE [file |-> <<"/", "m">>, line |-> pc]

\* func NewStackFrame(newProgramCounter uintptr) StackFrame
NewStackFrame(pc) ==
    IF pc = 0
    THEN [File |-> <<>>, LineNumber |-> 0, Name |-> <<>>, Package |-> <<>>, ProgramCounter |-> 0]
    ELSE [File |-> FileLine(pc).file, LineNumber |-> FileLine(pc).line,
          Name |-> packageAndName(FuncName(pc)).name, Package |-> packageAndName(FuncName(pc)).pkg,
          ProgramCounter |-> pc]

\* a StackFrames that resolves the raw stack whatever the frame cache holds
StackFramesLive(e) == [k \in 1..Len(e.stack) |-> NewStackFrame(e.stack[k])]

\* func (e errorData) StackFrames() []StackFrame: the frames it returns. The
\* receiver is a copy, so the Error Value itself is left as it was.
StackFrames(e) ==
    IF e.stackFrames.isNil
    THEN [k \in 1..Len(e.stack) |-> NewStackFrame(e.stack[k])]
    ELSE e.stackFrames.elems

-----------------------------------------------------------------------------
(* Specification SpecParse: ParsePanic run line by line on panic dumps, well  *)
(* formed and not.                                                            *)

PanicLine == <<"p", "a", "n", "i", "c", ":", " ", "b">>

GoroutineLine == <<"g", "o", "r", "o", "u", "t", "i", "n", "e", " ", "1", " ", "[", "r", "u", "n", "n", "i", "n", "g", "]", ":">>

\* first lines that are no panic line
BadFirstLines == {<<>>, <<"b">>}

\* lines between the panic line and the goroutine line
SeekLines == {<<>>, << <<>> >>}

CallF == <<"m", ".", "f", "(", "1", ")">>

CreatedByG == <<"c", "r", "e", "a", "t", "e", "d", " ", "b", "y", " ", "m", ".", "g">>

BareF == <<"m", ".", "f">>

CreatedByMethod == <<"c", "r", "e", "a", "t", "e", "d", " ", "b", "y", " ", "p", "/", "m", ".", "(", "*", "T", ")", ".", "g">>

LocA == <<"\t", "/", "a", ":", "7", " ", "+", "0", "x", "1">>

LocB == <<"\t", "/", "b", ":", "1", "2">>

LocNoTab == <<"/", "a", ":", "7">>

LocNoColon == <<"\t", "/", "a">>

LocNotNumber == <<"\t", "/", "a", ":", "x">>

CallDot == <<"m", ".", "T", MidDot, "f", "(", ")">>

CallLines == {CallF, CreatedByG, BareF, CreatedByMethod, CallDot}

LocLines == {LocA, LocB, LocNoTab, LocNoColon, LocNotNumber}

\* k frame entries, two lines each
RECURSIVE Bodies(_)
Bodies(k) ==
    IF k = 0 THEN {<<>>}
    ELSE {b \o <<c, l>> : b \in Bodies(k - 1), c \in CallLines, l \in LocLines}

\* up to MaxFrames entries, the last one possibly cut after its call-site line
FrameLists ==
    UNION {Bodies(k) : k \in 0..MaxFrames}
        \cup UNION {{b \o <<c>> : b \in Bodies(k), c \in CallLines} : k \in 0..(MaxFrames - 1)}

\* what follows the frame entries
Tails == {<<>>, << <<>> >>}

Dumps ==
    {<<f>> \o t : f \in BadFirstLines, t \in {<<>>, <<GoroutineLine, CallF, LocA>>}}
        \cup {<<PanicLine>> \o s \o t : s \in SeekLines, t \in {<<>>, <<CallF, LocA>>}}
        \cup {<<PanicLine>> \o s \o <<GoroutineLine>> \o b \o t :
                s \in SeekLines, b \in FrameLists, t \in Tails}

InitParse ==
    /\ plain = <<>>
    /\ errs = <<>>
    /\ applied = <<>>
    /\ last = NoCall
    /\ lines \in Dumps
    /\ ps = ParserStart

\* the step r taken by the parser
Parsed(r) ==
    /\ ps' = r.ps
    /\ plain' = r.plain
    /\ errs' = r.errs
    /\ applied' = [n \in 1..Len(r.errs) |-> IF n <= Len(applied) THEN applied[n] ELSE <<>>]
    /\ UNCHANGED <<last, lines>>

StartLine ==
    /\ ps.pc = "loop" /\ ps.i < Len(lines) /\ ps.state = "start"
    /\ Parsed(StartStep(heap, ps, lines, ParseCallers))

SeekLine ==
    /\ ps.pc = "loop" /\ ps.i < Len(lines) /\ ps.state = "seek"
    /\ Parsed(SeekStep(heap, ps, lines, ParseCallers))

ParsingLine ==
    /\ ps.pc = "loop" /\ ps.i < Len(lines) /\ ps.state = "parsing"
    /\ Parsed(ParsingStep(heap, ps, lines, ParseCallers))

Return ==
    /\ ps.pc = "after" \/ (ps.pc = "loop" /\ ps.i >= Len(lines))
    /\ Parsed(ReturnStep(heap, ps, lines, ParseCallers))

NextParse ==
    \/ StartLine
    \/ SeekLine
    \/ ParsingLine
    \/ Return

SpecParse == InitParse /\ [][NextParse]_vars


-----------------------------------------------------------------------------------------------------------------------------------------------------------------------------------------------------------------------------------------------------------------------------------------------------
(* Specification SpecChain: every operation that builds or changes an Error   *)
(* Value, on a heap of up to two Error Values that may be causes of one       *)
(* another.                                                                   *)

\* the dumps ParsePanic is given here: one that parses, one that does not
ChainDumps ==
    {<<PanicLine, GoroutineLine, CallF, LocA>>,
     <<PanicPrefix \o <<"c">>, GoroutineLine>>,
     << <<"b">> >>}

\* the errors handed to the constructors: the standard errors and Error Values made so far
ChainValues == {v \in Values : v.kind \in {"plain", "errx"}}

\* the call op left the heaps r
Chained(op, r) ==
    /\ plain' = r.plain
    /\ errs' = r.errs
    /\ applied' = [n \in 1..Len(r.errs) |-> <<>>]
    /\ last' = Call(op, Nil, <<>>, 0, Nil, <<>>)
    /\ UNCHANGED <<lines, ps>>

NewChain ==
    /\ Len(errs) < MaxErrs
    /\ Chained("New", New(heap, <<"a">>, UserStack(1)))

NewErrorChain ==
    \E v \in ChainValues :
        /\ Len(errs) < MaxErrs
        /\ Chained("NewError", NewError(heap, v, UserStack(1)))

WrapChain ==
    \E v \in ChainValues :
        /\ v.kind = "errx" \/ Len(errs) < MaxErrs
        /\ Chained("Wrap", Wrap(heap, v, 0, UserStack(1)))

WrapPrefixChain ==
    \E v \in ChainValues :
        /\ IF v.kind = "errx" THEN Prefix(errs[v.id]) = <<>> ELSE Len(errs) < MaxErrs
        /\ Chained("WrapPrefix", WrapPrefix(heap, v, <<"p">>, 0, UserStack(1)))

ErrorfChain ==
    /\ Len(errs) < MaxErrs
    /\ Chained("Errorf", Errorf(heap, <<"a">>, UserStack(1)))

SetMetadataChain ==
    \E n \in 1..Len(errs) :
        Chained("SetMetadata", [plain |-> plain, errs |-> SetMetadata(errs, n, 1)])

ParsePanicChain ==
    \E dump \in ChainDumps :
        /\ Len(errs) < MaxErrs
        /\ Chained("ParsePanic", ParsePanic(heap, dump, UserStack(1)))

NextChain ==
    \/ NewChain
    \/ NewErrorChain
    \/ WrapChain
    \/ WrapPrefixChain
    \/ ErrorfChain
    \/ SetMetadataChain
    \/ ParsePanicChain

SpecChain == Init /\ [][NextChain]_vars

-----
(* Specification SpecSections: ParsePanic on dumps with text before the       *)
(* running goroutine's section and with further sections after it.            *)

GoroutineSleeping == <<"g", "o", "r", "o", "u", "t", "i", "n", "e", " ", "2", " ", "[", "s", "l", "e", "e", "p", "]", ":">>

\* lines that may stand between the panic line and the running goroutine
JunkLine == {<<>>, PanicLine, CallF, LocA, GoroutineSleeping}

\* up to two such lines
JunkLines == {<<>>} \cup {<<a>> : a \in JunkLine} \cup {<<a, b>> : a \in JunkLine, b \in JunkLine}

\* k well-formed frame entries
RECURSIVE GoodBodies(_)
GoodBodies(k) ==
    IF k = 0 THEN {<<>>}
    ELSE {b \o <<c, l>> : b \in GoodBodies(k - 1), c \in {CallF, CreatedByG}, l \in {LocA, LocB}}

\* what follows the first section: nothing, the empty line, or the section of
\* another goroutine, with or without the empty line before it
LaterSections ==
    {<<>>, << <<>> >>, << <<>>, GoroutineLine, CallF, LocB >>, <<GoroutineLine, CallF, LocB>>}

SectionDumps ==
    {<<PanicLine>> \o j \o <<GoroutineLine>> \o b \o t :
        j \in JunkLines, b \in UNION {GoodBodies(k) : k \in 0..MaxFrames}, t \in LaterSections}

InitSections ==
    /\ plain = <<>>
    /\ errs = <<>>
    /\ applied = <<>>
    /\ last = NoCall
    /\ lines \in SectionDumps
    /\ ps = ParserStart

SpecSections == InitSections /\ [][NextParse]_vars

-----
(* Specification SpecFrames: ParsePanic run to its return, then StackFrames   *)
(* called on the Error Values it left: the parsed one, or the live-captured   *)
(* parse error and its cause.                                                 *)

StackFramesAct ==
    \E n \in 1..Len(errs) :
        /\ ps.pc = "returned"
        /\ last' = Call("StackFrames", ErrxRef(n), <<>>, 0, Nil, StackFrames(errs[n]))
        /\ UNCHANGED <<plain, errs, applied, lines, ps>>

NextFrames ==
    \/ StartLine
    \/ SeekLine
    \/ ParsingLine
    \/ Return
    \/ StackFramesAct

SpecFrames == InitParse /\ [][NextFrames]_vars

-----
(* Specification SpecMeta: one Error Value, its metadata set, read, decoded   *)
(* and the value serialised to JSON.                                          *)

\* the json.RawMessage values the payload pointers 1 and 2 point to: a JSON
\* object holding a number, and a text that is no JSON
RawMessages == <<[valid |-> TRUE, value |-> 7], [valid |-> FALSE, value |-> 0]>>

\* the values of the variable that UnmarshalMetadata is given a pointer to
Targets == {0, 5}

\* the error json.Unmarshal returns for a text that is no JSON
SyntaxError == [kind |-> "json", id |-> 0, msg |-> <<>>]

\* json.Unmarshal(data, target): the error and the target afterwards
Unmarshal(data, target) ==
    IF data.valid THEN [err |-> Nil, target |-> data.value]
    ELSE [err |-> SyntaxError, target |-> target]

\* an UnmarshalMetadata that decodes into the target whatever the metadata
UnmarshalMetadataZeroes(e, target) == [err |-> Nil, target |-> 0]

\* func (e errorData) UnmarshalMetadata(target any) error
UnmarshalMetadata(e, target) ==
    IF e.metadata = NoMetadata THEN [err |-> Nil, target |-> target]
    ELSE Unmarshal(RawMessages[e.metadata], target)

\* func (e errorData) jsonObject() errorJSONObject
jsonObject(e) ==
    [Cause |-> Error(e), StackFrames |-> StackFrames(e), Stack |-> Stack(e),
     Prefix |-> Prefix(e), Metadata |-> NoMetadata]

\* the JSON keys of errorJSONObject, by field
JSONKeys ==
    [Cause |-> "cause", StackFrames |-> "stack_frames", Stack |-> "stack",
     Prefix |-> "prefix", Metadata |-> "metadata"]

\* json.Marshal(obj) for an errorJSONObject, every field omitempty: the object
\* as a function from the keys written to their values
Marshal(obj) ==
    LET present == {f \in DOMAIN JSONKeys :
                       IF f = "Metadata" THEN obj[f] # NoMetadata ELSE obj[f] # <<>>}
    IN  [k \in {JSONKeys[f] : f \in present} |->
            obj[CHOOSE f \in present : JSONKeys[f] = k]]

\* func (e errorData) MarshalJSON() ([]byte, error)
MarshalJSON(e) == Marshal(jsonObject(e))

MetadataAct ==
    \E n \in 1..Len(errs) :
        /\ last' = Call("Metadata", ErrxRef(n), <<>>, 0, Nil, <<Metadata(errs[n])>>)
        /\ UNCHANGED <<plain, errs, applied, lines, ps>>

UnmarshalMetadataAct ==
    \E n \in 1..Len(errs), target \in Targets :
        LET r == UnmarshalMetadata(errs[n], target)
        IN  /\ last' = Call("UnmarshalMetadata", ErrxRef(n), <<target>>, 0, r.err, <<r.target>>)
            /\ UNCHANGED <<plain, errs, applied, lines, ps>>

MarshalJSONAct ==
    \E n \in 1..Len(errs) :
        /\ last' = Call("MarshalJSON", ErrxRef(n), <<>>, 0, Nil, MarshalJSON(errs[n]))
        /\ UNCHANGED <<plain, errs, applied, lines, ps>>

NextMeta ==
    \/ NewAct(1)
    \/ WrapPrefixAct(1)
    \/ SetMetadataAct
    \/ MetadataAct
    \/ UnmarshalMetadataAct
    \/ MarshalJSONAct

SpecMeta == Init /\ [][NextMeta]_vars

-----------------------------------------------------------------------------
(* Specification SpecSource: SourceLine called on frames that name a file     *)
(* of any content, or a file that cannot be read, and any line number.        *)

FrameSourceLine == 108

\* bytes.Split(data, []byte{'\n'})
RECURSIVE Split(_)
Split(data) ==
    LET nl == Index(data, <<"\n">>)
    IN  IF nl = -1 THEN <<data>>
        ELSE <<SubSeq(data, 1, nl)>> \o Split(SubSeq(data, nl + 2, Len(data)))

\* bytes.Trim(s, " \t")
RECURSIVE Trim(_)
Trim(s) ==
    IF s = <<>> THEN s
    ELSE IF Head(s) \in {" ", "\t"} THEN Trim(Tail(s))
    ELSE IF s[Len(s)] \in {" ", "\t"} THEN Trim(SubSeq(s, 1, Len(s) - 1))
    ELSE s

\* the placeholder for a line that is not there
Unknown == <<"?", "?", "?">>

\* the message of the error os.ReadFile returns
TextNoSuchFile == <<"o", "p", "e", "n">>

\* os.ReadFile(name) on the file system fs, a function from names to contents
ReadFile(fs, name) ==
    IF name \in DOMAIN fs THEN [ok |-> TRUE, data |-> fs[name]]
    ELSE [ok |-> FALSE, data |-> <<>>]

\* func (s *StackFrame) SourceLine() (string, error)
SourceLine(h, fs, s, callers) ==
    LET read == ReadFile(fs, s.File)
        ls == Split(read.data)
        failed == NewPlain(h, TextNoSuchFile)
        e == NewError(failed, failed.ret, <<FrameSourceLine>> \o callers)
    IN  IF ~read.ok THEN [plain |-> e.plain, errs |-> e.errs, ret |-> <<>>, err |-> e.ret]
        ELSE IF s.LineNumber <= 0 \/ s.LineNumber >= Len(ls)
        THEN [plain |-> h.plain, errs |-> h.errs, ret |-> Unknown, err |-> Nil]
        ELSE [plain |-> h.plain, errs |-> h.errs, ret |-> Trim(ls[s.LineNumber]), err |-> Nil]

\* the characters of a file: a letter, the two trimmed, and the newline
FileChars == {"x", " ", "\t", "\n"}

\* file contents of up to MaxFileLen characters
FileData == UNION {[1..n -> FileChars] : n \in 0..MaxFileLen}

\* line numbers: negative, zero, every line of the longest file, one past it
LineNumbers == (0 - 1)..(MaxFileLen + 2)

\* the file the frames name, and a name no file has
FileNames == {<<"f">>, <<"g">>}

\* a frame naming a file, the content of the file, and SourceLine about to be
\* called on the frame
InitSource ==
    /\ plain = <<>>
    /\ errs = <<>>
    /\ applied = <<>>
    /\ \E data \in FileData, name \in FileNames, n \in LineNumbers :
          /\ name = <<"g">> => data = <<>>
          /\ last = Call("call", StrVal(name), data, n, Nil, <<>>)
    /\ lines = <<>>
    /\ ps = ParserIdle

SourceLineAct ==
    /\ last.op = "call"
    /\ LET fs == [f \in {<<"f">>} |-> last.text]
           r == SourceLine(heap, fs, StackFrame(last.arg.msg, last.skip, <<>>, <<>>), UserStack(1))
       IN  /\ plain' = r.plain
           /\ errs' = r.errs
           /\ applied' = [k \in 1..Len(r.errs) |-> <<>>]
           /\ last' = [last EXCEPT !.op = "SourceLine", !.ret = r.err, !.out = r.ret]
    /\ UNCHANGED <<lines, ps>>

NextSource == SourceLineAct

SpecSource == InitSource /\ [][NextSource]_vars

-----
(* Claims about the Error Value *)

\* C1: Wrap is idempotent on Error Values: a Wrap call whose argument is already
\* an Error Value returns that very instance, whatever the skip, and leaves both
\* heaps as they were (cause, raw stack, prefix and metadata unchanged, no new
\* Error Value built, no new stack captured).
C1_WrapIdempotent ==
    [][(last'.op = "Wrap" /\ last'.arg.kind = "errx")
          => (last'.ret = last'.arg /\ errs' = errs /\ plain' = plain)]_vars

\* C1 witness: Wrap with skip 1 has been applied to an Error Value that carries
\* a prefix, metadata and a captured stack, and returned it.
C1_Witness ==
    /\ last.op = "Wrap" /\ last.arg.kind = "errx" /\ last.skip = 1
    /\ last.ret = last.arg
    /\ errs[last.arg.id].prefix # <<>>
    /\ errs[last.arg.id].metadata # NoMetadata
    /\ errs[last.arg.id].stack # <<>>

\* the prefixes given = <<p1, ..., pn>> composed as "pn: ...: p2: p1"
RECURSIVE Joined(_)
Joined(given) ==
    IF given = <<>> THEN <<>>
    ELSE IF Len(given) = 1 THEN given[1]
    ELSE given[Len(given)] \o <<":", " ">> \o Joined(SubSeq(given, 1, Len(given) - 1))

\* given without the empty prefixes it starts with
RECURSIVE DropEmptyHead(_)
DropEmptyHead(given) ==
    IF given # <<>> /\ Head(given) = <<>> THEN DropEmptyHead(Tail(given)) ELSE given

\* C2 as stated: after the WrapPrefix calls p1, ..., pn on one error its prefix
\* is "pn: ...: p2: p1", whatever the prefixes.
C2_Original ==
    \A n \in 1..Len(errs) : errs[n].prefix = Joined(applied[n])

\* C2 amended: after the WrapPrefix calls p1, ..., pn on one error its prefix is
\* "pn: ...: pk", pk being the first non-empty prefix of the calls: a prefix given
\* while the error's prefix is still empty replaces it, separator and all.
C2_PrefixComposition ==
    \A n \in 1..Len(errs) : errs[n].prefix = Joined(DropEmptyHead(applied[n]))

\* C2 witness: WrapPrefix "p" then WrapPrefix "q" on one error gave "q: p".
C2_Witness ==
    \E n \in 1..Len(errs) :
        /\ applied[n] = << <<"p">>, <<"q">> >>
        /\ errs[n].prefix = <<"q", ":", " ", "p">>
        /\ last.op = "WrapPrefix" /\ last.arg = ErrxRef(n)

\* C3: Error() returns the cause's message when the prefix is empty, prefix,
\* ": " and the cause's message when it is not, and "" when there is no cause.
C3_ErrorRendering ==
    last.op = "Error" =>
        LET e == errs[last.arg.id]
        IN  last.out = IF e.cause = Nil THEN <<>>
                       ELSE IF e.prefix = <<>> THEN ErrMessage(e.cause)
                       ELSE e.prefix \o <<":", " ">> \o ErrMessage(e.cause)

\* C3 witness: Error() has rendered a prefixed Error Value whose cause is itself
\* a prefixed Error Value.
C3_Witness ==
    /\ last.op = "Error"
    /\ errs[last.arg.id].prefix = <<"p">>
    /\ errs[last.arg.id].cause = ErrxRef(1)
    /\ errs[1].prefix = <<"q", ":", " ", "p">>
    /\ errs[1].cause = PlainRef(1)
    /\ last.out = <<"p", ":", " ", "q", ":", " ", "p", ":", " ", "a">>

\* C4: the error New(s) builds has Error() = s for every string s, the error
\* NewError(v) builds has Error() = v's message when v is an error and v's plain
\* string form otherwise; both have an empty prefix and no metadata.
C4_NewRendersInput ==
    /\ last.op \in {"New", "NewError"} =>
          /\ last.ret.kind = "errx"
          /\ errs[last.ret.id].prefix = <<>>
          /\ errs[last.ret.id].metadata = NoMetadata
    /\ last.op = "New" => Error(errs[last.ret.id]) = last.text
    /\ last.op = "NewError" =>
          Error(errs[last.ret.id]) =
              IF IsError(last.arg) THEN ErrMessage(last.arg)
              ELSE IF last.arg = Nil THEN <<"<", "n", "i", "l", ">">>
              ELSE last.arg.msg

\* the errors the caller can hold
Errors == {v \in Values : v = Nil \/ IsError(v)}

\* C5: Is(x, x) is true for every x, nil included; two distinct errors that are
\* not Error Values are never Is-equal, identical messages or not.
C5_IsIdentity ==
    /\ \A x \in Errors : Is(x, x)
    /\ \A a, b \in Errors :
          (a.kind # "errx" /\ b.kind # "errx" /\ a # Nil /\ b # Nil /\ a # b) => ~Is(a, b)

\* C5 witness: two distinct plain errors with one message, and an Error Value
\* wrapping one of them, are on the heap; Is tells the two plain errors apart.
C5_Witness ==
    \E a, b \in Errors, e \in Errors :
        /\ a.kind = "plain" /\ b.kind = "plain" /\ a # b
        /\ ErrMessage(a) = ErrMessage(b)
        /\ e.kind = "errx" /\ errs[e.id].cause = a
        /\ ~Is(a, b) /\ ~Is(e, b) /\ Is(e, a) /\ Is(Nil, Nil)

\* the errors reachable from v by following Cause() zero or more times
RECURSIVE Chain(_)
Chain(v) ==
    {v} \cup (IF v.kind = "errx" THEN Chain(errs[v.id].cause) ELSE {})

\* C6: Is(candidate, target) is true exactly when the two cause chains share
\* an error, whichever side is the plain error and whichever the wrapped chain.
C6_IsWalksBothChains ==
    \A a, b \in Errors : Is(a, b) <=> (Chain(a) \cap Chain(b) # {})

\* C6 witness: a plain error is found under a two-level chain given as target,
\* and two different Error Values that wrap one error are found equal.
C6_Witness ==
    \E a, t, c \in Errors :
        /\ a.kind = "plain" /\ t.kind = "errx" /\ c.kind = "errx" /\ c # t
        /\ errs[t.id].cause = c /\ errs[c.id].cause = a
        /\ Is(a, t) /\ Is(t, a) /\ Is(c, t) /\ Is(t, c)
        /\ \E o \in Errors : o.kind = "plain" /\ ~Is(o, t) /\ ~Is(t, o)
-----------------------------------------------------------------------------
(* Claims about ParsePanic *)

\* call-site lines and location lines of a well-formed frame entry
GoodCallLines == {CallF, CreatedByG, CreatedByMethod}

GoodLocLines == {LocA, LocB}

\* the lines after line g of the dump, less one closing empty line
EntryLines(ls, g) ==
    LET rest == SubSeq(ls, g + 1, Len(ls))
    IN  IF rest # <<>> /\ rest[Len(rest)] = <<>> THEN SubSeq(rest, 1, Len(rest) - 1) ELSE rest

\* the goroutine line of a dump: the second line, or the third after an empty one
GoroutineAt(ls) == IF Len(ls) >= 2 /\ ls[2] = GoroutineLine THEN 2 ELSE 3

\* a panic line, a goroutine line, then two-line frame entries, a created-by
\* entry only as the last one
WellFormed(ls) ==
    /\ HasPrefix(ls[1], PanicPrefix)
    /\ Len(ls) >= GoroutineAt(ls)
    /\ ls[GoroutineAt(ls)] = GoroutineLine
    /\ GoroutineAt(ls) = 3 => ls[2] = <<>>
    /\ LET r == EntryLines(ls, GoroutineAt(ls))
       IN  /\ Len(r) % 2 = 0
           /\ \A k \in 1..Len(r) :
                 IF k % 2 = 1
                 THEN /\ r[k] \in GoodCallLines
                      /\ HasPrefix(r[k], CreatedByPrefix) => k = Len(r) - 1
                 ELSE r[k] \in GoodLocLines

\* the symbol a call-site line names: "created by " dropped, and a closing
\* argument group dropped when the line ends with one
BareSymbol(call) ==
    LET s == IF HasPrefix(call, CreatedByPrefix) THEN TrimPrefix(call, CreatedByPrefix) ELSE call
    IN  IF s # <<>> /\ s[Len(s)] = ")" THEN SubSeq(s, 1, LastIndex(s, <<"(">>)) ELSE s

\* the frame a well-formed entry describes
EntryFrame(call, loc) ==
    [File |-> IF loc = LocA THEN <<"/", "a">> ELSE <<"/", "b">>,
     LineNumber |-> IF loc = LocA THEN 7 ELSE 12,
     Name |-> SplitSymbol(BareSymbol(call)).name,
     Package |-> SplitSymbol(BareSymbol(call)).pkg,
     ProgramCounter |-> 0]

\* C7: ParsePanic on a well-formed dump (panic line, goroutine line, n two-line
\* frame entries) returns no parse error and an Error Value whose Error() is the
\* message, whose Type() is "panic", whose raw stack is empty and whose frames
\* are the n frames of the entries in text order, each with the File,
\* LineNumber, Name and Package of its entry and no program counter.
C7_WellFormedDumpParses ==
    (ps.pc = "returned" /\ WellFormed(lines)) =>
        /\ ps.retErr = Nil
        /\ ps.retError.kind = "errx"
        /\ LET e == errs[ps.retError.id]
               r == EntryLines(lines, GoroutineAt(lines))
           IN  /\ Error(e) = TrimPrefix(lines[1], PanicPrefix)
               /\ Type(e) = "panic"
               /\ Stack(e) = <<>>
               /\ StackFrames(e) = [k \in 1..(Len(r) \div 2) |-> EntryFrame(r[2 * k - 1], r[2 * k])]

\* C8: when the first line does not begin with "panic: " (the empty input is
\* the one empty line) ParsePanic returns no Error Value and a parse error
\* whose message contains that line; once the parser is past the first line,
\* the line began with "panic: " and the panic message is exactly its rest.
C8_PanicLine ==
    /\ (ps.pc = "returned" /\ ~HasPrefix(lines[1], PanicPrefix)) =>
          /\ ps.retError = Nil
          /\ ps.retErr.kind = "errx"
          /\ Index(ErrMessage(ps.retErr), lines[1]) # -1
    /\ (ps.pc # "idle" /\ ps.state # "start") =>
          /\ HasPrefix(lines[1], PanicPrefix)
          /\ PanicPrefix \o ps.message = lines[1]
    /\ (ps.pc = "returned" /\ ps.retError # Nil) =>
          ErrMessage(ps.retError) = SubSeq(lines[1], Len(PanicPrefix) + 1, Len(lines[1]))

\* C8 witness: ParsePanic has returned a parse error for a dump whose first
\* line is "b", followed by an otherwise well-formed goroutine section
C8_Witness ==
    /\ ps.pc = "returned"
    /\ lines = << <<"b">>, GoroutineLine, CallF, LocA >>
    /\ ps.retError = Nil
    /\ ps.retErr.kind = "errx"
    /\ ErrMessage(ps.retErr) = TextNoPrefix \o <<"b">>

\* a decimal number, with or without sign
IsNumber(s) ==
    LET digits == IF s # <<>> /\ Head(s) \in {"+", "-"} THEN Tail(s) ELSE s
    IN  digits # <<>> /\ \A k \in 1..Len(digits) : \E d \in 1..10 : DigitChars[d] = digits[k]

\* a location line: a tab first, a colon, and after the final colon a number,
\* any " +offset" behind it set aside
ValidLocation(loc) ==
    /\ loc # <<>> /\ loc[1] = "\t"
    /\ \E c \in 1..Len(loc) :
          /\ loc[c] = ":"
          /\ \A d \in (c + 1)..Len(loc) : loc[d] # ":"
          /\ LET after == SubSeq(loc, c + 1, Len(loc))
                 cut == Index(after, <<" ", "+">>)
             IN  IsNumber(IF cut = -1 THEN after ELSE SubSeq(after, 1, cut))

\* C9: in state parsing, when the line after a call-site line is not a valid
\* location line (no leading tab, no colon, or no number after the final
\* colon), the step that parses the entry makes ParsePanic fail.
C9_InvalidLocationFails ==
    [][(/\ ps.pc = "loop" /\ ps.state = "parsing"
        /\ ps.i + 1 < Len(lines)
        /\ lines[ps.i + 1] # <<>>
        /\ ~ValidLocation(lines[ps.i + 2]))
       => (ps'.pc = "returned" /\ ps'.retError = Nil /\ ps'.retErr.kind = "errx")]_vars

\* C9 witness: ParsePanic has failed on the second entry, a call-site line with
\* an argument group followed by a location line without the tab
C9_Witness ==
    /\ ps.pc = "returned"
    /\ ps.retErr.kind = "errx"
    /\ Len(ps.stack) = 1
    /\ ps.i >= 1 /\ ps.i < Len(lines)
    /\ lines[ps.i] = CallF
    /\ lines[ps.i + 1] = LocNoTab
    /\ ErrMessage(ps.retErr) = TextNoTab \o LocNoTab

\* C10: whenever ParsePanic returns, exactly one of its two results is nil; and
\* when it returns a parse error, no Error Value holding parsed frames exists.
C10_AllOrNothing ==
    ps.pc = "returned" =>
        /\ \/ ps.retError.kind = "errx" /\ ps.retErr = Nil
           \/ ps.retError = Nil /\ ps.retErr.kind = "errx"
        /\ ps.retErr # Nil => \A n \in 1..Len(errs) : errs[n].stackFrames.isNil

\* C10 witness: ParsePanic has failed on a malformed entry after it had parsed
\* a frame
C10_Witness ==
    /\ ps.pc = "returned"
    /\ ps.retError = Nil
    /\ ps.retErr.kind = "errx"
    /\ ps.stack # <<>>

\* C11: when the lines are exhausted or the loop was left, ParsePanic succeeds
\* if the parser is in state done or parsing (a frame list without closing
\* empty line, even one of no frames), and in state seek it fails with an error
\* whose message includes the whole input.
C11_Completion ==
    [][(ps.pc = "after" \/ (ps.pc = "loop" /\ ps.i >= Len(lines))) =>
          /\ ps'.pc = "returned"
          /\ ps.state \in {"done", "parsing"} =>
                ps'.retError.kind = "errx" /\ ps'.retErr = Nil
          /\ ps.state = "seek" =>
                /\ ps'.retError = Nil
                /\ ps'.retErr.kind = "errx"
                /\ (Index(ErrMessage(ps.retErr), JoinLines(lines)) # -1)'
          /\ ps.state \in {"done", "parsing", "seek"}]_vars

\* C11 witness: ParsePanic has succeeded on a dump that ends with the location
\* line of its only frame entry, the parser still in state parsing
C11_Witness ==
    /\ ps.pc = "returned"
    /\ ps.state = "parsing"
    /\ ps.retError.kind = "errx"
    /\ ps.retErr = Nil
    /\ Len(ps.stack) = 1
    /\ lines[Len(lines)] = LocA

-----------------------------------------------------------------------------
(* Claims about metadata and serialisation *)

\* C12: SetMetadata returns no error and stores exactly the payload it is
\* given, nil included, whatever was stored before; no other call changes the
\* stored metadata, and Metadata() returns what is stored; UnmarshalMetadata on
\* an Error Value without metadata returns no error and leaves the target as
\* it was.
C12_MetadataReplaced ==
    [][/\ last'.op = "SetMetadata" =>
             /\ last'.ret = Nil
             /\ Metadata(errs'[last'.arg.id]) = last'.skip
             /\ \A n \in 1..Len(errs) : n # last'.arg.id => errs'[n] = errs[n]
       /\ last'.op # "SetMetadata" =>
             \A n \in 1..Len(errs) : Metadata(errs'[n]) = Metadata(errs[n])
       /\ last'.op = "Metadata" => last'.out = <<errs'[last'.arg.id].metadata>>
       /\ (last'.op = "UnmarshalMetadata" /\ errs'[last'.arg.id].metadata = NoMetadata) =>
             last'.ret = Nil /\ last'.out = last'.text]_vars

\* C12 witness: SetMetadata(nil) has cleared the payload 1 that the Error Value
\* held
C12_Witness ==
    /\ last.op = "SetMetadata"
    /\ last.text = <<1>>
    /\ last.skip = NoMetadata
    /\ last.ret = Nil
    /\ Metadata(errs[last.arg.id]) = NoMetadata

\* C13: the JSON form of an Error Value has the key "metadata" with the stored
\* payload when metadata is set, and no such key when none is set.
C13_JSONMetadata ==
    last.op = "MarshalJSON" =>
        LET e == errs[last.arg.id]
        IN  IF Metadata(e) = NoMetadata THEN "metadata" \notin DOMAIN last.out
            ELSE "metadata" \in DOMAIN last.out /\ last.out["metadata"] = Metadata(e)

\* C14: a call of StackFrames leaves every Error Value as it was and a second
\* call returns the same frames; on a live-captured error there is one frame
\* per raw stack entry, frame k resolved from entry k; on the error ParsePanic
\* returned the frames are the parsed ones, none resolved from a program
\* counter.
C14_StackFramesIdempotent ==
    [][last'.op = "StackFrames" =>
          LET e == errs'[last'.arg.id]
          IN  /\ errs' = errs /\ plain' = plain
              /\ StackFrames(e) = last'.out
              /\ e.cause.kind # "panic" =>
                    /\ Len(last'.out) = Len(Stack(e))
                    /\ \A k \in 1..Len(Stack(e)) :
                          /\ last'.out[k] = NewStackFrame(Stack(e)[k])
                          /\ last'.out[k].ProgramCounter = Stack(e)[k]
              /\ e.cause.kind = "panic" =>
                    /\ last'.out = ps.stack
                    /\ \A k \in 1..Len(last'.out) : last'.out[k].ProgramCounter = 0]_vars

\* C14 witness: StackFrames has returned the two parsed frames of the Error
\* Value that ParsePanic built
C14_Witness ==
    /\ last.op = "StackFrames"
    /\ ps.retError = last.arg
    /\ Len(ps.stack) = 2
    /\ last.out = ps.stack
    /\ Stack(errs[last.arg.id]) = <<>>

-----------------------------------------------------------------------------
(* Claims about stack capture *)

\* the frames of the calling code in a raw stack, the library's own left out
UserPart(stack) == SelectSeq(stack, LAMBDA pc : pc < FrameCallers)

\* the library's own frames in a raw stack
LibraryPart(stack) == SelectSeq(stack, LAMBDA pc : pc >= FrameCallers)

C16_ErrorfStackStart ==
    last.op = "Errorf" =>
        /\ Stack(errs[last.ret.id]) # <<>>
        /\ Stack(errs[last.ret.id])[1] = last.out[1]

\* C17: the raw stack of an error built by New or NewError is the call stack of
\* the constructor's caller, innermost first, up to MaxStackDepth entries, with
\* no frame of the library; the one built by Wrap with skip s is the same less
\* its s innermost frames.
C17_StackStartsAtCaller ==
    [][Len(errs') > Len(errs) =>
          LET stack == Stack(errs'[Len(errs')])
              caller == last'.out
          IN  /\ last'.op \in {"New", "NewError"} =>
                    stack = SubSeq(caller, 1, Min(Len(caller), MaxStackDepth))
              /\ last'.op = "Wrap" =>
                    stack = SubSeq(caller, 1 + last'.skip,
                                   Min(Len(caller), last'.skip + MaxStackDepth))]_vars

-----------------------------------------------------------------------------
(* Claims about mutation *)

\* C18: WrapPrefix applied to an Error Value e returns e itself and builds no
\* other value; after it Prefix() of e is the new prefix, Error() through any
\* reference to e renders it, an Error Value whose cause is e renders it too,
\* and cause, raw stack, frame cache and metadata of e and everything else on
\* the heap are as before; SetMetadata changes the metadata of its receiver and
\* nothing else.
C18_MutationInPlace ==
    [][/\ (last'.op = "WrapPrefix" /\ last'.arg.kind = "errx") =>
             LET id == last'.arg.id
                 new == IF errs[id].prefix = <<>> THEN last'.text
                        ELSE last'.text \o <<":", " ">> \o errs[id].prefix
             IN  /\ last'.ret = last'.arg
                 /\ Len(errs') = Len(errs) /\ plain' = plain
                 /\ errs' = [errs EXCEPT ![id].prefix = new]
                 /\ Prefix(errs'[id]) = new
                 /\ errs[id].cause.kind = "plain" =>
                       /\ (ErrMessage(last.arg))' =
                              IF new = <<>> THEN plain[errs[id].cause.id]
                              ELSE new \o <<":", " ">> \o plain[errs[id].cause.id]
                       /\ \A n \in 1..Len(errs) :
                              (n # id /\ errs[n].cause = last'.arg /\ errs[n].prefix = <<>>) =>
                                  (Error(errs[n]))' = (ErrMessage(last.arg))'
       /\ last'.op = "SetMetadata" =>
             /\ errs' = [errs EXCEPT ![last'.arg.id].metadata = last'.skip]
             /\ plain' = plain]_vars

\* C18 witness: WrapPrefix has given the prefix p to an Error Value that is the
\* cause of a second Error Value, and the second one renders it
C18_Witness ==
    /\ last.op = "WrapPrefix"
    /\ last.arg = ErrxRef(1)
    /\ last.ret = ErrxRef(1)
    /\ Len(errs) = 2
    /\ errs[2].cause = ErrxRef(1)
    /\ errs[2].prefix = <<>>
    /\ errs[1].prefix = <<"p">>
    /\ errs[1].metadata = 1
    /\ errs[2].metadata = 2
    /\ Error(errs[2]) = <<"p", ":", " ", "a">>

-----------------------------------------------------------------------------
(* Claims about SourceLine *)

\* the number of lines of a file: its newlines, and one more for text after
\* the last newline
LineCount(data) ==
    Cardinality({k \in 1..Len(data) : data[k] = "\n"})
        + (IF data # <<>> /\ data[Len(data)] # "\n" THEN 1 ELSE 0)

\* line n of a file, 1-based: the text between newline n - 1 and newline n, or
\* the end of the file
LineOf(data, n) ==
    LET newlines == {k \in 1..Len(data) : data[k] = "\n"}
        ends == newlines \cup {Len(data) + 1}
        stop == CHOOSE k \in ends : Cardinality({j \in newlines : j < k}) = n - 1
        start == IF n = 1 THEN 1
                 ELSE 1 + CHOOSE k \in newlines : Cardinality({j \in newlines : j < k}) = n - 2
    IN  SubSeq(data, start, stop - 1)

\* s with the spaces and tabs at both ends removed
Stripped(s) ==
    LET keep == {k \in 1..Len(s) : s[k] \notin {" ", "\t"}}
    IN  IF keep = {} THEN <<>>
        ELSE SubSeq(s, CHOOSE k \in keep : \A j \in keep : k <= j,
                       CHOOSE k \in keep : \A j \in keep : k >= j)

\* C19: SourceLine returns an error value when the file cannot be read;
\* otherwise it returns no error and, for every LineNumber from 1 to the number
\* of lines of the file, that line with the spaces and tabs at both ends
\* removed, and "???" for a LineNumber outside that range.
C19_SourceLine ==
    last.op = "SourceLine" =>
        IF last.arg = StrVal(<<"g">>)
        THEN last.ret.kind = "errx"
        ELSE /\ last.ret = Nil
             /\ last.out = IF last.skip >= 1 /\ last.skip <= LineCount(last.text)
                           THEN Stripped(LineOf(last.text, last.skip))
                           ELSE Unknown

-----------------------------------------------------------------------------
(* Claims about the parser's states *)

\* the place of a state in start -> seek -> parsing -> done
StateRank(state) ==
    CASE state = "start" -> 0 [] state = "seek" -> 1 [] state = "parsing" -> 2 [] state = "done" -> 3

\* C20: in every step of ParsePanic the state stays or moves forward along
\* start -> seek -> parsing -> done; seek is entered only from start, parsing
\* only from seek and done only from parsing; once the state is done no line
\* is read and no frame is appended.
C20_StatesMoveForward ==
    [][/\ StateRank(ps'.state) >= StateRank(ps.state)
       /\ (ps'.state = "seek" /\ ps.state # "seek") => ps.state = "start"
       /\ (ps'.state = "parsing" /\ ps.state # "parsing") => ps.state = "seek"
       /\ (ps'.state = "done" /\ ps.state # "done") => ps.state = "parsing"
       /\ ps.state = "done" => (ps'.i = ps.i /\ ps'.stack = ps.stack /\ ps'.pc = "returned")]_vars

\* C20 witness: ParsePanic has returned in state done after a created-by entry,
\* with two lines of the dump left unread
C20_Witness ==
    /\ ps.pc = "returned"
    /\ ps.state = "done"
    /\ Len(ps.stack) = 1
    /\ lines[ps.i] = CreatedByG
    /\ Len(lines) = ps.i + 3
    /\ ps.retError.kind = "errx"

\* C21: a step in state parsing on an empty line ends the frames normally
\* (state done, nothing appended, no failure); on a call-site line that is the
\* last line of the input it fails with the unpaired-line error naming that
\* line; and when it parses an entry it appends one frame, taken from the
\* call-site line and the line after it, and goes on two lines further unless
\* the entry was a created-by entry.
C21_TwoLinesPerEntry ==
    [][(ps.pc = "loop" /\ ps.state = "parsing" /\ ps.i < Len(lines)) =>
          LET call == lines[ps.i + 1]
              name == IF HasPrefix(call, CreatedByPrefix)
                      THEN SubSeq(call, Len(CreatedByPrefix) + 1, Len(call)) ELSE call
          IN  /\ call = <<>> =>
                    /\ ps'.state = "done" /\ ps'.pc = "after"
                    /\ ps'.stack = ps.stack /\ ps'.retErr = Nil
              /\ (call # <<>> /\ ps.i + 1 = Len(lines)) =>
                    /\ ps'.pc = "returned" /\ ps'.retError = Nil
                    /\ ps'.retErr.kind = "errx"
                    /\ (ErrMessage(ps.retErr))' = TextUnpaired \o name
              /\ (call # <<>> /\ ps.i + 1 < Len(lines) /\ ps'.pc # "returned") =>
                    /\ Len(ps'.stack) = Len(ps.stack) + 1
                    /\ SubSeq(ps'.stack, 1, Len(ps.stack)) = ps.stack
                    /\ lines[ps.i + 2] \in {LocA, LocB}
                    /\ ps'.stack[Len(ps'.stack)].File =
                          (IF lines[ps.i + 2] = LocA THEN <<"/", "a">> ELSE <<"/", "b">>)
                    /\ IF HasPrefix(call, CreatedByPrefix)
                       THEN ps'.state = "done" /\ ps'.i = ps.i + 1
                       ELSE ps'.state = "parsing" /\ ps'.i = ps.i + 2]_vars

\* C21 witness: ParsePanic has failed with the unpaired-line error on a
\* call-site line that ends the input, after it had parsed one entry
C21_Witness ==
    /\ ps.pc = "returned"
    /\ ps.retError = Nil
    /\ ps.retErr.kind = "errx"
    /\ Len(ps.stack) = 1
    /\ ps.i = Len(lines)
    /\ lines[Len(lines)] = CallF
    /\ ErrMessage(ps.retErr) = TextUnpaired \o CallF

\* C22: a step that parses a created-by entry appends its frame and puts the
\* parser in state done; from state done ParsePanic returns, without reading
\* another line, an Error Value whose frames are the ones parsed so far, the
\* created-by frame last, and no parse error, whatever lines follow.
C22_CreatedByIsLast ==
    [][/\ (/\ ps.pc = "loop" /\ ps.state = "parsing" /\ ps.i + 1 < Len(lines)
           /\ HasPrefix(lines[ps.i + 1], CreatedByPrefix)
           /\ ps'.pc # "returned") =>
             /\ ps'.state = "done" /\ ps'.pc = "after"
             /\ Len(ps'.stack) = Len(ps.stack) + 1
             /\ ps'.stack[Len(ps'.stack)].LineNumber =
                   (IF lines[ps.i + 2] = LocA THEN 7 ELSE 12)
       /\ ps.state = "done" =>
             /\ ps'.pc = "returned" /\ ps'.i = ps.i
             /\ ps'.retErr = Nil /\ ps'.retError.kind = "errx"
             /\ (StackFrames(errs[ps.retError.id]))' = ps.stack]_vars

\* C22 witness: ParsePanic has succeeded with the one frame of a created-by
\* entry that a malformed entry follows
C22_Witness ==
    /\ ps.pc = "returned"
    /\ ps.state = "done"
    /\ ps.retErr = Nil
    /\ ps.retError.kind = "errx"
    /\ StackFrames(errs[ps.retError.id]) = ps.stack
    /\ Len(ps.stack) = 1
    /\ ps.i >= 1 /\ Len(lines) = ps.i + 3
    /\ lines[ps.i] = CreatedByG
    /\ lines[ps.i + 2] = BareF
    /\ lines[ps.i + 3] = LocNoTab

\* C23: a step that parses an entry with a valid location line fails with the
\* no-call error when the call-site line is no created-by line and has no "(";
\* otherwise it appends a frame whose Package and Name are those the live
\* resolver's split gives for the bare symbol, the call-site line less
\* "created by " and less a closing argument group, a receiver in parentheses
\* kept.
C23_SymbolSplit ==
    [][(/\ ps.pc = "loop" /\ ps.state = "parsing" /\ ps.i + 1 < Len(lines)
        /\ lines[ps.i + 1] # <<>>
        /\ ValidLocation(lines[ps.i + 2])) =>
          LET call == lines[ps.i + 1]
              createdBy == HasPrefix(call, CreatedByPrefix)
              name == IF createdBy THEN SubSeq(call, Len(CreatedByPrefix) + 1, Len(call)) ELSE call
          IN  IF ~createdBy /\ Index(name, <<"(">>) = -1
              THEN /\ ps'.pc = "returned" /\ ps'.retError = Nil
                   /\ ps'.retErr.kind = "errx"
                   /\ (ErrMessage(ps.retErr))' = TextNoCall \o name
              ELSE /\ ps'.pc # "returned"
                   /\ Len(ps'.stack) = Len(ps.stack) + 1
                   /\ ps'.stack[Len(ps'.stack)].Package = packageAndName(BareSymbol(call)).pkg
                   /\ ps'.stack[Len(ps'.stack)].Name = packageAndName(BareSymbol(call)).name]_vars

\* the first line of a dump that starts with "goroutine " and ends with
\* "[running]:"
RunningAt(ls) ==
    CHOOSE g \in 1..Len(ls) :
        /\ HasPrefix(ls[g], GoroutinePrefix) /\ HasSuffix(ls[g], RunningSuffix)
        /\ \A k \in 1..(g - 1) :
              ~(HasPrefix(ls[k], GoroutinePrefix) /\ HasSuffix(ls[k], RunningSuffix))

\* the frames of the entries from line k up to the empty line, the created-by
\* entry or the end of the dump
RECURSIVE SectionFrames(_, _)
SectionFrames(ls, k) ==
    IF k + 1 > Len(ls) \/ ls[k] = <<>> THEN <<>>
    ELSE IF HasPrefix(ls[k], CreatedByPrefix) THEN <<EntryFrame(ls[k], ls[k + 1])>>
    ELSE <<EntryFrame(ls[k], ls[k + 1])>> \o SectionFrames(ls, k + 2)

\* C24: a step in state seek reads one line and appends nothing, and it leaves
\* state seek exactly when the line starts with "goroutine " and ends with
\* "[running]:"; when ParsePanic succeeds, the frames it returns are those of
\* the entries between the first such line and the first terminator after it,
\* none of a later section.
C24_FirstRunningSection ==
    [][/\ (ps.pc = "loop" /\ ps.state = "seek" /\ ps.i < Len(lines)) =>
             /\ ps'.i = ps.i + 1 /\ ps'.stack = <<>> /\ ps'.pc = "loop"
             /\ ps'.state = IF ps.i + 1 = RunningAt(lines) THEN "parsing" ELSE "seek"
       /\ (ps.pc # "returned" /\ ps'.pc = "returned" /\ ps'.retErr = Nil) =>
             (StackFrames(errs[ps.retError.id]))' = SectionFrames(lines, RunningAt(lines) + 1)]_vars

\* C24 witness: ParsePanic has returned the one frame of the running
\* goroutine's section; the dump has a sleeping goroutine's line and a
\* location line before that section and another running section after it
C24_Witness ==
    /\ ps.pc = "returned"
    /\ ps.retErr = Nil
    /\ ps.retError.kind = "errx"
    /\ Len(lines) = 10
    /\ lines[2] = GoroutineSleeping
    /\ lines[3] = LocA
    /\ lines[4] = GoroutineLine
    /\ lines[7] = <<>>
    /\ lines[8] = GoroutineLine
    /\ StackFrames(errs[ps.retError.id]) = <<EntryFrame(lines[5], lines[6])>>

-----------------------------------------------------------------------------
(* Claims about the frame cache and the JSON form *)

\* C25: after StackFrames has been called on a live-captured Error Value, the
\* Error Value holds the frames the call returned as its stored frame list, so
\* that a later call finds them there.
C25_FramesCached ==
    (last.op = "StackFrames" /\ errs[last.arg.id].cause.kind # "panic") =>
        /\ ~errs[last.arg.id].stackFrames.isNil
        /\ errs[last.arg.id].stackFrames.elems = last.out

\* C26: in the JSON form of an Error Value with prefix p and cause message m
\* the field "cause" is m and the field "prefix" is p, while Error() is
\* "p: m".
C26_JSONCause ==
    last.op = "MarshalJSON" =>
        LET e == errs[last.arg.id]
            m == ErrMessage(e.cause)
        IN  /\ "cause" \in DOMAIN last.out
            /\ last.out["cause"] = m
            /\ e.prefix # <<>> =>
                  /\ "prefix" \in DOMAIN last.out
                  /\ last.out["prefix"] = e.prefix
                  /\ Error(e) = e.prefix \o <<":", " ">> \o m

-----------------------------------------------------------------------------
(* Claims about cause chains *)

-----------------------------------------------------------------------------
(* Claims about Is on cause chains *)

\* the errors a caller can hold after a sequence of calls: nil, the standard
\* errors, the Error Values, and the panic values that Cause() hands out
ChainErrors == Errors \cup {Cause(errs[n]) : n \in 1..Len(errs)}

\* the number of calls of Is that Is(comparedTo, target) makes, itself included
RECURSIVE IsSteps(_, _)
IsSteps(comparedTo, target) ==
    IF comparedTo = target THEN 1
    ELSE IF comparedTo.kind = "errx" THEN 1 + IsSteps(Cause(errs[comparedTo.id]), target)
    ELSE IF target.kind = "errx" THEN 1 + IsSteps(comparedTo, errs[target.id].cause)
    ELSE 1

\* the number of cause links below v
RECURSIVE Depth(_)
Depth(v) == IF v.kind = "errx" THEN 1 + Depth(errs[v.id].cause) ELSE 0

\* C28: for all errors a and b (nil, standard errors, panic values, Error
\* Values nested to any depth) Is(a, b) = Is(b, a), and Is(a, b) returns
\* after at most one call per cause link of a and of b, plus one.
C28_IsSymmetric ==
    \A a, b \in ChainErrors :
        /\ Is(a, b) = Is(b, a)
        /\ IsSteps(a, b) <= Depth(a) + Depth(b) + 1

\* C28 witness: an Error Value wraps an Error Value that wraps a panic value;
\* Is finds the panic value under the outer one in either order, in three
\* calls one way, and tells the outer one from a standard error in either order.
C28_Witness ==
    /\ Len(errs) = 2 /\ Len(plain) >= 1
    /\ errs[2].cause = ErrxRef(1) /\ errs[1].cause.kind = "panic"
    /\ Is(ErrxRef(2), errs[1].cause) /\ Is(errs[1].cause, ErrxRef(2))
    /\ IsSteps(ErrxRef(2), errs[1].cause) = 3
    /\ ~Is(ErrxRef(2), PlainRef(1)) /\ ~Is(PlainRef(1), ErrxRef(2))
\* the Error Values that ParsePanic returned
ParsedPanics == {n \in 1..Len(errs) : errs[n].cause.kind = "panic"}

\* C29: two Error Values returned by two separate ParsePanic calls are not
\* Is-equal, whether the two dumps carry the same panic message or not.
C29_ParsedPanicsDistinct ==
    \A i, j \in ParsedPanics : i # j => ~Is(ErrxRef(i), ErrxRef(j))

\* two parsed panics with different messages are told apart
C29_DifferentMessages ==
    \A i, j \in ParsedPanics :
        errs[i].cause.msg # errs[j].cause.msg => ~Is(ErrxRef(i), ErrxRef(j))

\* two separate ParsePanic calls on dumps with one message have returned
C29_SameMessageTwice ==
    \E i, j \in ParsedPanics : i # j /\ errs[i].cause.msg = errs[j].cause.msg
-----------------------------------------------------------------------------
(* Claims about concurrent WrapPrefix calls *)

\* both calls have returned
BothDone == \A g \in Goroutines : last.calls[g].pc = "done"

\* the prefix holds pa in front of pb in front of the prefix held before
BothKept(pa, pb) ==
    Prefix(errs[1]) = pa \o Sep \o pb \o (IF last.held = <<>> THEN <<>> ELSE Sep \o last.held)

\* C30 as stated: after two concurrent WrapPrefix calls with prefixes p1 and
\* p2 on one Error Value, with or without synchronization by the callers, the
\* prefix holds both p1 and p2, in one of the two orders, in front of the
\* prefix held before.
C30_Original ==
    BothDone =>
        \/ BothKept(last.calls[1].text, last.calls[2].text)
        \/ BothKept(last.calls[2].text, last.calls[1].text)

\* C30, amended: when the callers serialize the two calls with a mutex of their
\* own, the prefix after both calls holds the prefix of the later call in front
\* of the prefix of the earlier call in front of the prefix held before.
C30_SerializedKeepsBoth ==
    (last.sync /\ BothDone) =>
        BothKept(applied[1][2], applied[1][1])

\* C30 witness: two serialized calls with different prefixes on an Error Value
\* that had a prefix have returned, and the prefix holds all three
C30_Witness ==
    /\ last.sync /\ BothDone
    /\ last.held = <<"o">>
    /\ applied[1] = << <<"q">>, <<"p">> >>
    /\ Prefix(errs[1]) = <<"p", ":", " ", "q", ":", " ", "o">>

\* without synchronization both calls have read the prefix before either wrote
\* it, and the prefix of the call that wrote first is gone
C30_LostPrefix ==
    /\ ~last.sync /\ BothDone
    /\ last.held = <<"o">>
    /\ applied[1] = << <<"q">>, <<"p">> >>
    /\ Prefix(errs[1]) = <<"p", ":", " ", "o">>
====
